---- MODULE Spec2Model ----
(***************************************************************************)
(* Conflict detector, resolution engine and their callers (navda backend). *)
(*                                                                         *)
(* Units of the fixed-point arithmetic:                                    *)
(*   latitude, longitude   thousandths of a degree                         *)
(*   altitude              hundredths of a foot                            *)
(*   velocity, vertical_rate   m/s                                         *)
(*   distances             thousandths of a nautical mile                  *)
(*   confidence, success probability   hundredths                          *)
(* All modelled aircraft fly along the parallel 40 N with heading 090 or   *)
(* 270, so that sin/cos of the heading are exactly 1, -1 and 0 and the     *)
(* haversine distance depends on the longitude difference only.            *)
(***************************************************************************)
EXTENDS Integers, Sequences, FiniteSets, TLC

VARIABLES
    active_conflicts,   \* ConflictDetectionAgent.active_conflicts: key -> alert
    detection_count,    \* ConflictDetectionAgent.detection_count
    conflict_callbacks, \* ConflictDetectionAgent.conflict_callbacks
    is_monitoring,      \* ConflictDetectionAgent.is_monitoring
    loops,              \* number of monitor_loop tasks created and not yet ended
    clock,              \* datetime.now() readings consumed so far
    last,               \* the last operation on the detector, with what it saw
    snapshot,           \* argument of a direct detect_conflicts call
    detected,           \* what that call returned and which instants it scanned
    simTime,            \* head-on scenario: simulated seconds elapsed
    evals,              \* head-on scenario: results of the evaluations so far
    strategies_generated,   \* ResolutionAgent.strategies_generated
    generated,          \* the last generate_resolution_strategies call
    strategies_accepted,    \* ResolutionAgent.strategies_accepted
    strategies_rejected,    \* ResolutionAgent.strategies_rejected
    strategy_history,   \* ResolutionAgent.strategy_history
    event_queue,        \* AgentCoordinator.event_queue
    event_handlers,     \* AgentCoordinator.event_handlers: type -> handlers
    event_history,      \* AgentCoordinator.event_history
    is_running,         \* AgentCoordinator.is_running
    tasks,              \* the _coordination_loop tasks created so far
    events_processed,   \* AgentCoordinator.events_processed
    events_failed,      \* AgentCoordinator.events_failed
    coordination_cycles,    \* AgentCoordinator.coordination_cycles
    agent_status,       \* AgentCoordinator.agent_status
    emitted,            \* datetime.now() readings of emit_event so far
    budget,             \* what the environment of the coordinator has done so far
    cycle               \* the dispatch cycle in progress or last finished

detectorVars == <<active_conflicts, detection_count, conflict_callbacks,
                  is_monitoring, loops, clock, last>>
detectVars == <<snapshot, detected>>
headOnVars == <<simTime, evals>>
genVars == <<strategies_generated, generated, strategies_accepted,
            strategies_rejected, strategy_history>>
coordVars == <<event_queue, event_handlers, event_history, is_running, tasks,
              events_processed, events_failed, coordination_cycles, agent_status,
              emitted, budget, cycle>>
vars == <<active_conflicts, detection_count, conflict_callbacks, is_monitoring,
          loops, clock, last, snapshot, detected, simTime, evals,
          strategies_generated, generated, strategies_accepted,
          strategies_rejected, strategy_history,
          event_queue, event_handlers, event_history, is_running, tasks,
          events_processed, events_failed, coordination_cycles, agent_status,
          emitted, budget, cycle>>

----------------------------------------------------------------------------
(* Bounds *)

NumAircraftIds == 3     \* icao24 values 1..NumAircraftIds of a direct detect call
NumProviderIds == 2     \* icao24 values 1..NumProviderIds the data provider reports
MaxSnapshotLen == 3     \* longest aircraft list handed to a direct detect call
MaxProviderLen == 2     \* longest aircraft list the data provider returns
MaxClock == 3           \* alerts created before the monitoring model stops
MaxCallbacks == 1       \* registered notification callbacks
MaxLoops == 2           \* monitor_loop tasks alive at once
MaxSimTime == 60        \* head-on scenario: last simulated second
MaxGenerated == 10      \* strategies_generated the resolution model counts up to
MaxHistory == 2         \* outcomes recorded before the resolution model stops
NumStrategyIds == 2     \* strategy ids 1..NumStrategyIds passed to record_strategy_outcome
MaxEmits == 2           \* emit_event calls from outside the dispatch loop
MaxPriority == 2        \* event priorities 1..MaxPriority
MaxCustomHandlers == 2  \* register_event_handler calls after construction
MaxTasks == 2           \* _coordination_loop tasks created
MaxCycles == 2          \* dispatch cycles begun before the coordinator model stops
QueueBacklog == 9       \* events waiting in the queue of the backlogged coordinator
HistoryHeadroom == 1    \* free places in the history of the long-running coordinator
DenseContextLen == 80   \* aircraft in the busiest context list handed to generate

----------------------------------------------------------------------------
(* Helpers of the arithmetic *)

Abs(x) == IF x < 0 THEN -x ELSE x

\* float division rounded towards zero
Quot(a, b) == IF a >= 0 THEN a \div b ELSE -((-a) \div b)

\* math.sin / math.cos of a heading in degrees
SinDeg(heading) == CASE heading = 90 -> 1 [] heading = 270 -> -1
CosDeg(heading) == CASE heading = 90 -> 0 [] heading = 270 -> 0

\* 111000 * cos(latitude): metres per degree of longitude
MetersPerDegLon(latitude) == CASE latitude = 40000 -> 85031

\* 3440.065 * (pi/180) * cos(latitude) * 10^4: great-circle length of one
\* degree of longitude on the parallel, in 10^-4 NM
NmPerDegLonE4(latitude) == CASE latitude = 40000 -> 459937

----------------------------------------------------------------------------
(* ConflictDetectionAgent: configuration *)

horizontal_separation_min == 5000       \* 5.0 NM
vertical_separation_min == 100000       \* 1000 ft
time_horizon == 300
time_steps == <<30, 60, 120, 180, 300>>

----------------------------------------------------------------------------
(* Geodesy primitives *)

\* haversine distance of two points of the same parallel; for the longitude
\* differences of the model (below 2 degrees) 2*asin(cos(lat)*sin(dlon/2))
\* equals cos(lat)*dlon to 10^-4 relative
CalculateDistance(lat1, lon1, lat2, lon2) ==
    (Abs(lon2 - lon1) * NmPerDegLonE4(lat1)) \div 10000

CalculateVerticalSeparation(alt1, alt2) == Abs(alt1 - alt2)

PredictAircraftPosition(aircraft, time_ahead) ==
    LET lat_travel == Quot(aircraft.velocity * CosDeg(aircraft.heading) * time_ahead, 111)
        lon_travel == Quot(aircraft.velocity * SinDeg(aircraft.heading) * time_ahead * 1000,
                           MetersPerDegLon(aircraft.latitude))
        altitude_change == Quot(aircraft.vertical_rate * 19685 * time_ahead, 60)
    IN  [lat |-> aircraft.latitude + lat_travel,
         lon |-> aircraft.longitude + lon_travel,
         alt |-> aircraft.altitude + altitude_change]

----------------------------------------------------------------------------
(* ConflictAlert and its creation *)

\* "conflict_<timestamp>": the token -1 stands for the prefix, 0 for "_"
AlertId(stamp) == <<-1, 0, stamp>>

\* f"{icao24}_{icao24}"
ConflictKey(conflict) == <<conflict.aircraft1.icao24, 0, conflict.aircraft2.icao24>>

ConflictTypeOf(horizontal_sep, vertical_sep) ==
    IF horizontal_sep < horizontal_separation_min /\ vertical_sep >= vertical_separation_min
    THEN "HORIZONTAL"
    ELSE IF horizontal_sep >= horizontal_separation_min /\ vertical_sep < vertical_separation_min
    THEN "VERTICAL"
    ELSE "BOTH"

\* SeverityOf with the brackets one step too low
SeverityOfShifted(time_to_conflict) ==
    IF time_to_conflict < 30 THEN "CRITICAL"
    ELSE IF time_to_conflict < 60 THEN "HIGH"
    ELSE IF time_to_conflict < 120 THEN "MEDIUM"
    ELSE "LOW"

SeverityOf(time_to_conflict) ==
    IF time_to_conflict < 60 THEN "CRITICAL"
    ELSE IF time_to_conflict < 120 THEN "HIGH"
    ELSE IF time_to_conflict < 180 THEN "MEDIUM"
    ELSE "LOW"

CreateConflictAlert(aircraft1, aircraft2, time_to_conflict, horizontal_sep, vertical_sep, stamp) ==
    [aircraft1 |-> aircraft1,
     aircraft2 |-> aircraft2,
     time_to_conflict |-> time_to_conflict,
     separation_distance |-> horizontal_sep,
     vertical_separation |-> vertical_sep,
     conflict_type |-> ConflictTypeOf(horizontal_sep, vertical_sep),
     severity |-> SeverityOf(time_to_conflict),
     alert_id |-> AlertId(stamp)]

----------------------------------------------------------------------------
(* detect_conflicts *)

\* both minima violated
Violation(horizontal, vertical) ==
    horizontal < horizontal_separation_min /\ vertical < vertical_separation_min

PredictedHorizontal(aircraft1, aircraft2, time_ahead) ==
    LET p1 == PredictAircraftPosition(aircraft1, time_ahead)
        p2 == PredictAircraftPosition(aircraft2, time_ahead)
    IN  CalculateDistance(p1.lat, p1.lon, p2.lat, p2.lon)

PredictedVertical(aircraft1, aircraft2, time_ahead) ==
    LET p1 == PredictAircraftPosition(aircraft1, time_ahead)
        p2 == PredictAircraftPosition(aircraft2, time_ahead)
    IN  CalculateVerticalSeparation(p1.alt, p2.alt)

\* ScanTimeSteps without the break that follows the append: every violating
\* instant of the list is reported
RECURSIVE ScanTimeStepsNoBreak(_, _, _, _)
ScanTimeStepsNoBreak(aircraft1, aircraft2, k, stamp) ==
    IF k > Len(time_steps) THEN [alerts |-> <<>>, scanned |-> <<>>]
    ELSE LET time_ahead == time_steps[k] IN
         IF time_ahead > time_horizon THEN [alerts |-> <<>>, scanned |-> <<>>]
         ELSE LET predicted_horizontal == PredictedHorizontal(aircraft1, aircraft2, time_ahead)
                  predicted_vertical == PredictedVertical(aircraft1, aircraft2, time_ahead)
                  rest == ScanTimeStepsNoBreak(aircraft1, aircraft2, k + 1, stamp)
              IN  [alerts |-> (IF Violation(predicted_horizontal, predicted_vertical)
                               THEN <<CreateConflictAlert(aircraft1, aircraft2, time_ahead,
                                          predicted_horizontal, predicted_vertical, stamp)>>
                               ELSE <<>>) \o rest.alerts,
                   scanned |-> <<time_ahead>> \o rest.scanned]

\* the inner loop over time_steps, from position k on; the result lists the
\* alerts appended and the instants for which positions were predicted
RECURSIVE ScanTimeSteps(_, _, _, _)
ScanTimeSteps(aircraft1, aircraft2, k, stamp) ==
    IF k > Len(time_steps) THEN [alerts |-> <<>>, scanned |-> <<>>]
    ELSE LET time_ahead == time_steps[k] IN
         IF time_ahead > time_horizon THEN [alerts |-> <<>>, scanned |-> <<>>]
         ELSE LET predicted_horizontal == PredictedHorizontal(aircraft1, aircraft2, time_ahead)
                  predicted_vertical == PredictedVertical(aircraft1, aircraft2, time_ahead)
              IN  IF Violation(predicted_horizontal, predicted_vertical)
                  THEN [alerts |-> <<CreateConflictAlert(aircraft1, aircraft2, time_ahead,
                                          predicted_horizontal, predicted_vertical, stamp)>>,
                        scanned |-> <<time_ahead>>]
                  ELSE LET rest == ScanTimeSteps(aircraft1, aircraft2, k + 1, stamp)
                       IN  [alerts |-> rest.alerts,
                            scanned |-> <<time_ahead>> \o rest.scanned]

\* DetectPair without the continue of the current-breach branch: the pair is
\* handed to the prediction loop as well
DetectPairNoContinue(aircraft1, aircraft2, stamp) ==
    LET current_horizontal == CalculateDistance(aircraft1.latitude, aircraft1.longitude,
                                                aircraft2.latitude, aircraft2.longitude)
        current_vertical == CalculateVerticalSeparation(aircraft1.altitude, aircraft2.altitude)
        scan == ScanTimeSteps(aircraft1, aircraft2, 1, stamp)
    IN  IF Violation(current_horizontal, current_vertical)
        THEN [alerts |-> <<CreateConflictAlert(aircraft1, aircraft2, 0,
                                current_horizontal, current_vertical, stamp)>> \o scan.alerts,
              scanned |-> scan.scanned]
        ELSE scan

\* the body of the pair loop
DetectPair(aircraft1, aircraft2, stamp) ==
    LET current_horizontal == CalculateDistance(aircraft1.latitude, aircraft1.longitude,
                                                aircraft2.latitude, aircraft2.longitude)
        current_vertical == CalculateVerticalSeparation(aircraft1.altitude, aircraft2.altitude)
    IN  IF Violation(current_horizontal, current_vertical)
        THEN [alerts |-> <<CreateConflictAlert(aircraft1, aircraft2, 0,
                                current_horizontal, current_vertical, stamp)>>,
              scanned |-> <<>>]
        ELSE ScanTimeSteps(aircraft1, aircraft2, 1, stamp)

\* the two nested loops: aircraft1 = aircraft_list[i], aircraft2 = aircraft_list[j];
\* acc holds the conflicts list so far and, per pair visited, the instants scanned
RECURSIVE DetectLoop(_, _, _, _, _)
DetectLoop(aircraft_list, i, j, acc, now) ==
    IF i > Len(aircraft_list) THEN acc
    ELSE IF j > Len(aircraft_list) THEN DetectLoop(aircraft_list, i + 1, i + 2, acc, now)
    ELSE LET r == DetectPair(aircraft_list[i], aircraft_list[j], now + Len(acc.alerts) + 1)
         IN  DetectLoop(aircraft_list, i, j + 1,
                        [alerts |-> acc.alerts \o r.alerts,
                         scans |-> Append(acc.scans, [a |-> aircraft_list[i].icao24,
                                                      b |-> aircraft_list[j].icao24,
                                                      scanned |-> r.scanned])],
                        now)

DetectTrace(aircraft_list, now) ==
    DetectLoop(aircraft_list, 1, 2, [alerts |-> <<>>, scans |-> <<>>], now)

DetectConflicts(aircraft_list, now) == DetectTrace(aircraft_list, now).alerts

----------------------------------------------------------------------------
(* Aircraft and snapshots *)

AircraftIds == 1..NumAircraftIds

Track(longitude, altitude, heading, vertical_rate) ==
    [latitude |-> 40000, longitude |-> longitude, altitude |-> altitude,
     velocity |-> 250, heading |-> heading, vertical_rate |-> vertical_rate]

\* the kinematic states a direct detect call is tried on: the head-on pair of
\* the scenario, traffic in trail, traffic descending through a level, and
\* opposite traffic 17, 49 and 81 NM ahead
Kinematics ==
    {Track(-74000, 3500000, 90, 0),
     Track(-73800, 3500000, 270, 0),
     Track(-73950, 3500000, 90, 0),
     Track(-73950, 3700000, 90, -5),
     Track(-73640, 3500000, 270, 0),
     Track(-72940, 3500000, 270, 0),
     Track(-72240, 3500000, 270, 0),
     Track(-73800, 3700000, 90, 0)}

\* the kinematic states the data provider of the monitoring loop reports: two
\* aircraft with the same state are in current breach, two with different
\* states stay 9 NM and 2000 ft apart
ProviderKinematics ==
    {Track(-74000, 3500000, 90, 0),
     Track(-73800, 3700000, 90, 0)}

MakeAircraft(id, k) ==
    [icao24 |-> id, latitude |-> k.latitude, longitude |-> k.longitude,
     altitude |-> k.altitude, velocity |-> k.velocity, heading |-> k.heading,
     vertical_rate |-> k.vertical_rate]

\* the lists of at most n aircraft with pairwise different ids, in any order
SnapshotsOf(ids, kin, n) ==
    UNION {{s \in [1..len -> {MakeAircraft(id, k) : id \in ids, k \in kin}] :
                \A p, q \in 1..len : p # q => s[p].icao24 # s[q].icao24}
           : len \in 0..n}

----------------------------------------------------------------------------
(* Initial values of the parts a specification does not exercise *)

EmptyMap == [k \in {} |-> {}]

NoOperation ==
    [op |-> "none", arg |-> <<>>, log |-> <<>>, found |-> FALSE, raised |-> FALSE]

DetectorIdle ==
    /\ active_conflicts = EmptyMap
    /\ detection_count = 0
    /\ conflict_callbacks = <<>>
    /\ is_monitoring = FALSE
    /\ loops = 0
    /\ clock = 0
    /\ last = NoOperation

NotDetected == [done |-> FALSE, alerts |-> <<>>, scans |-> <<>>]

DetectIdle == snapshot = <<>> /\ detected = NotDetected

HeadOnIdle == simTime = 0 /\ evals = <<>>

NotGenerated ==
    [called |-> FALSE, raises |-> FALSE, conflict |-> <<>>, context |-> 0, density |-> 0,
     invoked |-> <<>>, raised |-> <<>>, candidates |-> <<>>, strategies |-> <<>>]

ResolutionIdle ==
    /\ strategies_generated = 0
    /\ generated = NotGenerated
    /\ strategies_accepted = 0
    /\ strategies_rejected = 0
    /\ strategy_history = <<>>

\* EventType
EventTypes ==
    {"conflict_detected", "conflict_resolved", "resolution_generated",
     "resolution_accepted", "resolution_rejected", "aircraft_update",
     "system_status", "error"}

\* _setup_default_handlers: the event types that get a handler of the
\* coordinator on construction
DefaultHandled ==
    {"conflict_detected", "resolution_generated", "resolution_accepted",
     "resolution_rejected", "aircraft_update", "error"}

\* event_handlers after __init__; an event type that is no key of the dict
\* has the empty list here
DefaultHandlers ==
    [t \in EventTypes |-> IF t \in DefaultHandled THEN <<"default">> ELSE <<>>]

NoCycle == [number |-> 0, at_start |-> <<>>, selected |-> <<>>, index |-> 0, log |-> <<>>]

NoBudget == [origin |-> 0, registered |-> 0]

\* agent_status after __init__: the detector entry and the stamp of the
\* last refresh (the number of the cycle that made it)
InitialStatus == [conflict_detector |-> "active", active_conflicts |-> 0, last_update |-> 0]

\* the coordinator after __init__
CoordinatorIdle ==
    /\ event_queue = <<>>
    /\ event_handlers = DefaultHandlers
    /\ event_history = <<>>
    /\ is_running = FALSE
    /\ tasks = <<>>
    /\ events_processed = 0
    /\ events_failed = 0
    /\ coordination_cycles = 0
    /\ agent_status = InitialStatus
    /\ emitted = 0
    /\ budget = NoBudget
    /\ cycle = NoCycle

----------------------------------------------------------------------------
(* SpecDetect: detect_conflicts called directly on an aircraft list *)

DetectCall ==
    /\ ~detected.done
    /\ LET r == DetectTrace(snapshot, clock)
       IN  detected' = [done |-> TRUE, alerts |-> r.alerts, scans |-> r.scans]
    /\ UNCHANGED <<snapshot, detectorVars, headOnVars, genVars, coordVars>>

InitDetect ==
    /\ snapshot \in SnapshotsOf(AircraftIds, Kinematics, MaxSnapshotLen)
    /\ detected = NotDetected
    /\ DetectorIdle
    /\ HeadOnIdle
    /\ ResolutionIdle
    /\ CoordinatorIdle

NextDetect == DetectCall

SpecDetect == InitDetect /\ [][NextDetect]_vars

----------------------------------------------------------------------------
(* The active-conflict registry *)

\* the callback loop: every callback is called inside its own try/except, so
\* one that raises does not end the loop; the result lists the callbacks called
RECURSIVE NotifyCallbacks(_, _)
NotifyCallbacks(callbacks, k) ==
    IF k > Len(callbacks) THEN <<>>
    ELSE <<k>> \o NotifyCallbacks(callbacks, k + 1)

\* some key of the registry names the same two aircraft as the conflict
PairActive(active, conflict) ==
    \E key \in DOMAIN active :
        {key[1], key[3]} = {conflict.aircraft1.icao24, conflict.aircraft2.icao24}

\* the loop body with the counter incremented for every conflict, whether its
\* key is new or not
ProcessConflictCountingAll(st, conflict, callbacks) ==
    LET conflict_key == ConflictKey(conflict)
        entry == [key |-> conflict_key, alert_id |-> conflict.alert_id,
                  keyActive |-> conflict_key \in DOMAIN st.active,
                  pairActive |-> PairActive(st.active, conflict),
                  countBefore |-> st.count]
    IN  [active |-> (conflict_key :> conflict) @@ st.active,
         count |-> st.count + 1,
         log |-> Append(st.log, entry @@ [invoked |-> NotifyCallbacks(callbacks, 1),
                                          countAfter |-> st.count + 1])]

\* one iteration of the loop of _process_detected_conflicts
ProcessConflict(st, conflict, callbacks) ==
    LET conflict_key == ConflictKey(conflict)
        entry == [key |-> conflict_key, alert_id |-> conflict.alert_id,
                  keyActive |-> conflict_key \in DOMAIN st.active,
                  pairActive |-> PairActive(st.active, conflict),
                  countBefore |-> st.count]
    IN  IF conflict_key \notin DOMAIN st.active
        THEN [active |-> (conflict_key :> conflict) @@ st.active,
              count |-> st.count + 1,
              log |-> Append(st.log, [entry EXCEPT !.keyActive = FALSE] @@
                                     [invoked |-> NotifyCallbacks(callbacks, 1),
                                      countAfter |-> st.count + 1])]
        ELSE [active |-> [st.active EXCEPT ![conflict_key] = conflict],
              count |-> st.count,
              log |-> Append(st.log, entry @@ [invoked |-> <<>>, countAfter |-> st.count])]

RECURSIVE ProcessLoop(_, _, _, _)
ProcessLoop(conflicts, k, st, callbacks) ==
    IF k > Len(conflicts) THEN st
    ELSE ProcessLoop(conflicts, k + 1, ProcessConflict(st, conflicts[k], callbacks), callbacks)

\* _process_detected_conflicts that first forgets the conflicts of earlier
\* cycles, so that the registry holds the current detections only
ProcessDetectedConflictsRebuild(conflicts, active, count, callbacks) ==
    ProcessLoop(conflicts, 1, [active |-> EmptyMap, count |-> count, log |-> <<>>], callbacks)

ProcessDetectedConflicts(conflicts, active, count, callbacks) ==
    ProcessLoop(conflicts, 1, [active |-> active, count |-> count, log |-> <<>>], callbacks)

\* resolve_conflict with the membership test left out: del raises KeyError
ResolveUnguarded(active, conflict_id) ==
    [active |-> [key \in DOMAIN active \ {conflict_id} |-> active[key]],
     found |-> conflict_id \in DOMAIN active,
     raised |-> conflict_id \notin DOMAIN active]

\* resolve_conflict
Resolve(active, conflict_id) ==
    IF conflict_id \in DOMAIN active
    THEN [active |-> [key \in DOMAIN active \ {conflict_id} |-> active[key]],
          found |-> TRUE, raised |-> FALSE]
    ELSE [active |-> active, found |-> FALSE, raised |-> FALSE]

\* get_active_conflicts
GetActiveConflicts == {active_conflicts[key] : key \in DOMAIN active_conflicts}

----------------------------------------------------------------------------
(* Spec: the detector's monitoring loop, resolve calls and callbacks *)

ProviderIds == 1..NumProviderIds

ProviderSnapshots == SnapshotsOf(ProviderIds, ProviderKinematics, MaxProviderLen)

\* what a caller can pass to resolve_conflict: a registry key in either order
\* of the two ids, an alert id, or the alert id of no alert
ResolveArguments ==
    {<<a, 0, b>> : a, b \in ProviderIds} \cup {AlertId(n) : n \in 1..(MaxClock + 1)}

Seen(op, arg) ==
    [op |-> op, arg |-> arg, log |-> <<>>, found |-> FALSE, raised |-> FALSE]

StartMonitoring ==
    /\ loops < MaxLoops
    /\ is_monitoring' = TRUE
    /\ loops' = loops + 1
    /\ last' = Seen("start", <<>>)
    /\ UNCHANGED <<active_conflicts, detection_count, conflict_callbacks, clock,
                   detectVars, headOnVars, genVars, coordVars>>

StopMonitoring ==
    /\ is_monitoring' = FALSE
    /\ last' = Seen("stop", <<>>)
    /\ UNCHANGED <<active_conflicts, detection_count, conflict_callbacks, loops, clock,
                   detectVars, headOnVars, genVars, coordVars>>

AddConflictCallback(behaviour) ==
    /\ Len(conflict_callbacks) < MaxCallbacks
    /\ conflict_callbacks' = Append(conflict_callbacks, behaviour)
    /\ last' = Seen("add_callback", <<>>)
    /\ UNCHANGED <<active_conflicts, detection_count, is_monitoring, loops, clock,
                   detectVars, headOnVars, genVars, coordVars>>

\* one iteration of monitor_loop: provider, detect, process, sleep
MonitorCycle(aircraft_list) ==
    /\ loops > 0
    /\ is_monitoring
    /\ LET conflicts == IF aircraft_list # <<>>
                        THEN DetectConflicts(aircraft_list, clock) ELSE <<>>
           r == ProcessDetectedConflicts(conflicts, active_conflicts, detection_count,
                                         conflict_callbacks)
       IN  /\ clock + Len(conflicts) <= MaxClock
           /\ clock' = clock + Len(conflicts)
           /\ active_conflicts' = r.active
           /\ detection_count' = r.count
           /\ last' = [Seen("cycle", <<>>) EXCEPT !.log = r.log]
    /\ UNCHANGED <<conflict_callbacks, is_monitoring, loops, detectVars, headOnVars, genVars, coordVars>>

\* a monitor_loop that wakes up with the flag cleared leaves its while loop
MonitorExit ==
    /\ loops > 0
    /\ ~is_monitoring
    /\ loops' = loops - 1
    /\ last' = Seen("exit", <<>>)
    /\ UNCHANGED <<active_conflicts, detection_count, conflict_callbacks, is_monitoring,
                   clock, detectVars, headOnVars, genVars, coordVars>>

ResolveConflict(conflict_id) ==
    /\ LET r == Resolve(active_conflicts, conflict_id)
       IN  /\ active_conflicts' = r.active
           /\ last' = [Seen("resolve", conflict_id) EXCEPT !.found = r.found, !.raised = r.raised]
    /\ UNCHANGED <<detection_count, conflict_callbacks, is_monitoring, loops, clock,
                   detectVars, headOnVars, genVars, coordVars>>

\* a detect call that also hands its result to _process_detected_conflicts
DetectRouteProcessing(aircraft_list) ==
    /\ \E conflicts \in {DetectConflicts(aircraft_list, clock)} :
           LET r == ProcessDetectedConflicts(conflicts, active_conflicts, detection_count,
                                             conflict_callbacks)
           IN  /\ clock + Len(conflicts) <= MaxClock
               /\ clock' = clock + Len(conflicts)
               /\ detected' = [done |-> TRUE, alerts |-> conflicts, scans |-> <<>>]
               /\ active_conflicts' = r.active
               /\ detection_count' = r.count
               /\ last' = [Seen("detect", <<>>) EXCEPT !.log = r.log]
    /\ UNCHANGED <<conflict_callbacks, is_monitoring, loops, snapshot,
                   headOnVars, genVars, coordVars>>

\* the detect route of app.py: detect_conflicts called outside the monitoring
\* loop; the alerts it returns are serialised for the caller and kept nowhere
DetectRoute(aircraft_list) ==
    /\ \E conflicts \in {DetectConflicts(aircraft_list, clock)} :
           /\ clock + Len(conflicts) <= MaxClock
           /\ clock' = clock + Len(conflicts)
           /\ detected' = [done |-> TRUE, alerts |-> conflicts, scans |-> <<>>]
    /\ last' = Seen("detect", <<>>)
    /\ UNCHANGED <<active_conflicts, detection_count, conflict_callbacks, is_monitoring,
                   loops, snapshot, headOnVars, genVars, coordVars>>

Init == DetectorIdle /\ DetectIdle /\ HeadOnIdle /\ ResolutionIdle /\ CoordinatorIdle

Next ==
    \/ StartMonitoring
    \/ StopMonitoring
    \/ \E behaviour \in {"returns", "raises"} : AddConflictCallback(behaviour)
    \/ \E aircraft_list \in ProviderSnapshots : MonitorCycle(aircraft_list)
    \/ MonitorExit
    \/ \E conflict_id \in ResolveArguments : ResolveConflict(conflict_id)
    \/ \E aircraft_list \in ProviderSnapshots : DetectRoute(aircraft_list)

Spec == Init /\ [][Next]_vars

----------------------------------------------------------------------------
(* Properties of the registry, checked under Spec *)

\* the two aircraft ids a registry key names
PairOfKey(key) == {key[1], key[3]}

\* C1: the registry holds at most one alert per unordered pair of aircraft
\* ids, whether the pair was detected as (A,B) or as (B,A).
OneAlertPerPair ==
    \A k1, k2 \in DOMAIN active_conflicts :
        PairOfKey(k1) = PairOfKey(k2) => k1 = k2

\* C2: in a processing cycle, a conflict whose pair has no entry in the
\* registry is notified to every registered callback exactly once and counted
\* once; a conflict whose pair has an entry replaces it, notifies nobody and
\* is not counted.
NotifiedOncePerNewPair ==
    last.op = "cycle" =>
        \A n \in 1..Len(last.log) :
            LET e == last.log[n] IN
            IF ~e.pairActive
            THEN /\ e.invoked = [k \in 1..Len(conflict_callbacks) |-> k]
                 /\ e.countAfter = e.countBefore + 1
            ELSE /\ e.invoked = <<>>
                 /\ e.countAfter = e.countBefore

\* C3: after resolve(alertId), get_active_conflicts returns no alert with
\* that alert id.
ResolvedAlertIsGone ==
    last.op = "resolve" =>
        \A alert \in GetActiveConflicts : alert.alert_id # last.arg

\* C4: resolve with an id that is not in the registry raises nothing and
\* leaves the registry, the detection counter and the callbacks as they were.
ResolveAbsentIsNoOp ==
    [][(last'.op = "resolve" /\ last'.arg \notin DOMAIN active_conflicts) =>
          /\ ~last'.raised
          /\ active_conflicts' = active_conflicts
          /\ detection_count' = detection_count
          /\ conflict_callbacks' = conflict_callbacks
          /\ last'.log = <<>>]_vars

\* a resolve call that found nothing to delete, made while the registry holds
\* alerts and after an earlier resolve call removed one
ResolveAbsentSeen ==
    /\ last.op = "resolve"
    /\ ~last.found
    /\ active_conflicts # EmptyMap
    /\ detection_count > Cardinality(DOMAIN active_conflicts)

\* C5: a key leaves the registry only in a resolve call for that key: no
\* detection cycle, start or stop of monitoring removes an entry.
OnlyResolveRemoves ==
    [][\A key \in DOMAIN active_conflicts :
          key \notin DOMAIN active_conflicts' =>
              (last'.op = "resolve" /\ last'.arg = key)]_vars

\* a detection cycle that did not detect the pair of a registered alert again
\* and left the alert in the registry
StaleAlertKept ==
    /\ last.op = "cycle"
    /\ \E key \in DOMAIN active_conflicts :
          \A n \in 1..Len(last.log) : PairOfKey(last.log[n].key) # PairOfKey(key)

----------------------------------------------------------------------------
(* Properties of detect_conflicts, checked under SpecDetect *)

Min(S) == CHOOSE m \in S : \A n \in S : m <= n

\* positions in detected.alerts of the alerts for the aircraft of positions i, j
AlertsOfPair(i, j) ==
    {n \in 1..Len(detected.alerts) :
        {detected.alerts[n].aircraft1.icao24, detected.alerts[n].aircraft2.icao24}
            = {snapshot[i].icao24, snapshot[j].icao24}}

\* the instants for which detect predicted the positions of the pair i, j
ScannedOfPair(i, j) ==
    {detected.scans[m].scanned : m \in {m \in 1..Len(detected.scans) :
        {detected.scans[m].a, detected.scans[m].b} = {snapshot[i].icao24, snapshot[j].icao24}}}

CurrentBreach(x, y) ==
    /\ CalculateDistance(x.latitude, x.longitude, y.latitude, y.longitude) < 5000
    /\ CalculateVerticalSeparation(x.altitude, y.altitude) < 100000

\* the instants of {30,60,120,180,300} within the horizon at which the
\* extrapolated positions violate both minima
ViolatingInstants(x, y) ==
    {t \in {30, 60, 120, 180, 300} :
        /\ t <= 300
        /\ PredictedHorizontal(x, y, t) < 5000
        /\ PredictedVertical(x, y, t) < 100000}

\* C6: every pair of the snapshot that is below 5 NM and below 1000 ft now gets
\* exactly one alert, with time-to-conflict 0, type Both and severity Critical,
\* and no future instant is predicted for that pair.
CurrentBreachAlert ==
    detected.done =>
        \A i, j \in 1..Len(snapshot) :
            (i < j /\ CurrentBreach(snapshot[i], snapshot[j])) =>
                /\ Cardinality(AlertsOfPair(i, j)) = 1
                /\ \A n \in AlertsOfPair(i, j) :
                      /\ detected.alerts[n].time_to_conflict = 0
                      /\ detected.alerts[n].conflict_type = "BOTH"
                      /\ detected.alerts[n].severity = "CRITICAL"
                /\ ScannedOfPair(i, j) = {<<>>}

\* a detect call on three aircraft of which two are at the same position and
\* level, and a third one is in predicted conflict with them
CurrentBreachSeen ==
    /\ detected.done
    /\ Len(snapshot) = 3
    /\ \E i, j \in 1..3 :
          /\ i < j
          /\ snapshot[i].longitude = snapshot[j].longitude
          /\ snapshot[i].altitude = snapshot[j].altitude
          /\ ViolatingInstants(snapshot[i], snapshot[j]) # {}
          /\ Cardinality(AlertsOfPair(i, j)) = 1
    /\ Len(detected.alerts) > 1

\* C7: a pair that is not in current breach gets at most one alert; its
\* time-to-conflict is the smallest violating instant of the list, and there is
\* no alert when no instant violates.
EarliestPredictedOnly ==
    detected.done =>
        \A i, j \in 1..Len(snapshot) :
            (i < j /\ ~CurrentBreach(snapshot[i], snapshot[j])) =>
                LET V == ViolatingInstants(snapshot[i], snapshot[j])
                IN  IF V = {}
                    THEN AlertsOfPair(i, j) = {}
                    ELSE /\ Cardinality(AlertsOfPair(i, j)) = 1
                         /\ \A n \in AlertsOfPair(i, j) :
                               detected.alerts[n].time_to_conflict = Min(V)

\* a detect call in which a pair violates the minima at two instants of the
\* list and is reported for the first of them, next to a pair without conflict
EarliestPredictedSeen ==
    /\ detected.done
    /\ \E i, j \in 1..Len(snapshot) :
          /\ i < j
          /\ ~CurrentBreach(snapshot[i], snapshot[j])
          /\ Cardinality(ViolatingInstants(snapshot[i], snapshot[j])) >= 2
          /\ \E n \in AlertsOfPair(i, j) : detected.alerts[n].time_to_conflict = 120
    /\ \E i, j \in 1..Len(snapshot) :
          /\ i < j
          /\ ~CurrentBreach(snapshot[i], snapshot[j])
          /\ ViolatingInstants(snapshot[i], snapshot[j]) = {}

----------------------------------------------------------------------------
(* SpecHeadOn: the head-on scenario, re-evaluated while simulated time runs *)

\* A at 40.00 N 74.00 W heading 090, B at 40.00 N 73.80 W heading 270, both
\* at 35000 ft and 250 m/s
HeadOnA == MakeAircraft(1, Track(-74000, 3500000, 90, 0))
HeadOnB == MakeAircraft(2, Track(-73800, 3500000, 270, 0))

\* the aircraft where its own kinematics have taken it after t seconds
Moved(aircraft, t) ==
    LET p == PredictAircraftPosition(aircraft, t)
    IN  [aircraft EXCEPT !.latitude = p.lat, !.longitude = p.lon, !.altitude = p.alt]

ScenarioAt(t) == <<Moved(HeadOnA, t), Moved(HeadOnB, t)>>

\* what an evaluation keeps of the alerts detect returned
Summary(alerts) ==
    [n \in 1..Len(alerts) |->
        [time_to_conflict |-> alerts[n].time_to_conflict,
         conflict_type |-> alerts[n].conflict_type,
         severity |-> alerts[n].severity]]

Advance ==
    /\ simTime < MaxSimTime
    /\ simTime' = simTime + 1
    /\ UNCHANGED <<evals, detectorVars, detectVars, genVars, coordVars>>

\* detect on the scenario as it stands now; evals keeps the last two results
Evaluate ==
    /\ IF evals = <<>> THEN TRUE ELSE evals[Len(evals)].time < simTime
    /\ LET result == [time |-> simTime,
                      alerts |-> Summary(DetectConflicts(ScenarioAt(simTime), 0))]
       IN  evals' = IF evals = <<>> THEN <<result>>
                    ELSE <<evals[Len(evals)], result>>
    /\ UNCHANGED <<simTime, detectorVars, detectVars, genVars, coordVars>>

InitHeadOn ==
    /\ simTime = 0 /\ evals = <<>>
    /\ DetectorIdle /\ DetectIdle /\ ResolutionIdle /\ CoordinatorIdle

NextHeadOn == Advance \/ Evaluate

SpecHeadOn == InitHeadOn /\ [][NextHeadOn]_vars

\* C8 as claimed: from one evaluation to the next the reported time-to-conflict
\* strictly decreases; alerts are of type Both, and Critical below 60 s.
HeadOnStrictlyDecreasing ==
    /\ \A n \in 1..Len(evals) : \A m \in 1..Len(evals[n].alerts) :
          /\ evals[n].alerts[m].conflict_type = "BOTH"
          /\ evals[n].alerts[m].time_to_conflict < 60 =>
                evals[n].alerts[m].severity = "CRITICAL"
    /\ (Len(evals) = 2 /\ evals[1].alerts # <<>> /\ evals[2].alerts # <<>>) =>
          evals[2].alerts[1].time_to_conflict < evals[1].alerts[1].time_to_conflict

\* C8 as amended: every evaluation of the first 50 simulated seconds reports
\* exactly one alert; alerts are of type Both and Critical, their
\* time-to-conflict is 30 or 0 and never increases from one evaluation to the
\* next.
HeadOnNeverIncreasing ==
    /\ \A n \in 1..Len(evals) :
          /\ evals[n].time <= 50 => Len(evals[n].alerts) = 1
          /\ Len(evals[n].alerts) <= 1
          /\ \A m \in 1..Len(evals[n].alerts) :
                /\ evals[n].alerts[m].conflict_type = "BOTH"
                /\ evals[n].alerts[m].time_to_conflict \in {0, 30}
                /\ evals[n].alerts[m].severity = "CRITICAL"
    /\ (Len(evals) = 2 /\ evals[1].alerts # <<>> /\ evals[2].alerts # <<>>) =>
          evals[2].alerts[1].time_to_conflict <= evals[1].alerts[1].time_to_conflict

\* two successive evaluations, the first predicting the conflict in 30 s, the
\* second finding the aircraft inside the minima
HeadOnSeen ==
    /\ Len(evals) = 2
    /\ evals[1].alerts # <<>> /\ evals[1].alerts[1].time_to_conflict = 30
    /\ evals[2].alerts # <<>> /\ evals[2].alerts[1].time_to_conflict = 0
    /\ evals[2].alerts[1].severity = "CRITICAL"

----------------------------------------------------------------------------
(* ResolutionAgent: configuration *)

max_strategies_per_conflict == 5
min_confidence_threshold == 50          \* 0.5

\* PriorityLevel.value
PriorityValue == [CRITICAL |-> 1, HIGH |-> 2, MEDIUM |-> 3, LOW |-> 4]

\* _initialize_strategy_mapping: the generators in the order of the dict
resolution_strategies ==
    <<"heading_change", "altitude_change", "speed_adjustment", "vector_clearance",
      "holding_pattern", "route_deviation", "combined">>

----------------------------------------------------------------------------
(* ResolutionAgent: scores *)

\* conflict.severity == "critical": a SeverityLevel member compared with a
\* str; Enum defines no equality with its value, so the result is False for
\* every member and every text
EnumEqualsStr(member, text) == FALSE

\* min(max(x, 0.0), 1.0)
Clamp(x) == IF x < 0 THEN 0 ELSE IF x > 100 THEN 100 ELSE x

\* sin(latitude) / 2 * 10^4: how far the initial bearing along a parallel
\* leaves due east or west, per degree of longitude difference
HalfSinLatE4(latitude) == CASE latitude = 40000 -> 3214

\* _calculate_relative_bearing for two aircraft of the same parallel, in
\* thousandths of a degree; atan2(0, 0) is 0 for coinciding positions
CalculateRelativeBearing(aircraft1, aircraft2) ==
    LET dlon == aircraft2.longitude - aircraft1.longitude
        off == (Abs(dlon) * HalfSinLatE4(aircraft1.latitude)) \div 10000
    IN  IF dlon = 0 THEN 0
        ELSE IF dlon > 0 THEN 90000 - off
        ELSE 270000 + off

\* _calculate_avoidance_vector: (relative_bearing + 90) % 360, a float
\* whatever the two aircraft are
CalculateAvoidanceVector(aircraft1, aircraft2) ==
    [kind |-> "float",
     value |-> (CalculateRelativeBearing(aircraft1, aircraft2) + 90000) % 360000]

\* f"{x:03d}": the format code d raises ValueError for a float
FormatD03Raises(x) == x.kind = "float"

\* _calculate_traffic_density, in hundredths: aircraft of the list within
\* 20 NM of the midpoint of the two aircraft, divided by 100.0
CalculateTrafficDensity(conflict, aircraft_list) ==
    LET conflict_lat == Quot(conflict.aircraft1.latitude + conflict.aircraft2.latitude, 2)
        conflict_lon == Quot(conflict.aircraft1.longitude + conflict.aircraft2.longitude, 2)
    IN  Cardinality({n \in 1..Len(aircraft_list) :
            CalculateDistance(conflict_lat, conflict_lon,
                              aircraft_list[n].latitude, aircraft_list[n].longitude)
                <= 20000})

\* _analyze_conflict, the entries the generators read
AnalyzeConflict(conflict, aircraft_list) ==
    [severity |-> conflict.severity,
     traffic_density |-> CalculateTrafficDensity(conflict, aircraft_list)]

CalculateConfidence(conflict, strategy_type) ==
    LET base_confidence == 70
        by_severity ==
            IF EnumEqualsStr(conflict.severity, "critical") THEN base_confidence + 20
            ELSE IF EnumEqualsStr(conflict.severity, "high") THEN base_confidence + 10
            ELSE IF EnumEqualsStr(conflict.severity, "low") THEN base_confidence - 10
            ELSE base_confidence
        by_type ==
            IF strategy_type = "heading_change" THEN by_severity + 10
            ELSE IF strategy_type = "altitude_change" THEN by_severity + 5
            ELSE IF strategy_type = "speed_adjustment" THEN by_severity - 5
            ELSE by_severity
    IN  Clamp(by_type)

CalculateSuccessProbability(conflict, strategy_type, conflict_analysis) ==
    LET base_probability == 70
        by_severity ==
            IF conflict.severity = "CRITICAL" THEN base_probability + 20
            ELSE IF conflict.severity = "HIGH" THEN base_probability + 10
            ELSE IF conflict.severity = "LOW" THEN base_probability - 10
            ELSE base_probability
        by_type ==
            IF strategy_type = "heading_change" THEN by_severity + 10
            ELSE IF strategy_type = "altitude_change" THEN by_severity + 5
            ELSE IF strategy_type = "speed_adjustment" THEN by_severity - 5
            ELSE by_severity
        by_density ==
            IF conflict_analysis.traffic_density > 70 THEN by_type - 10 ELSE by_type
    IN  Clamp(by_density)

----------------------------------------------------------------------------
(* ResolutionAgent: the strategy generators *)

\* a ResolutionStrategy, the fields generate_resolution_strategies reads
Strategy(strategy_type, priority, actions, conflict, conflict_analysis) ==
    [strategy_type |-> strategy_type,
     priority |-> priority,
     actions |-> actions,
     confidence |-> CalculateConfidence(conflict, strategy_type),
     success_probability |->
         CalculateSuccessProbability(conflict, strategy_type, conflict_analysis)]

Returned(strategy) == [raised |-> FALSE, strategy |-> strategy]

Raised == [raised |-> TRUE, strategy |-> <<>>]

\* the turn angle of _suggest_heading_change
BaseAngle(conflict) ==
    IF EnumEqualsStr(conflict.severity, "critical") THEN 45
    ELSE IF EnumEqualsStr(conflict.severity, "high") THEN 30
    ELSE IF EnumEqualsStr(conflict.severity, "medium") THEN 20
    ELSE 15

HeadingAction(aircraft, direction, angle) ==
    [aircraft |-> aircraft.icao24, action |-> "heading_change",
     direction |-> direction, angle |-> angle,
     new_heading |-> (aircraft.heading + (IF direction = "right" THEN angle ELSE -angle)) % 360]

SuggestHeadingChange(conflict, aircraft_list, conflict_analysis) ==
    LET relative_bearing == CalculateRelativeBearing(conflict.aircraft1, conflict.aircraft2)
        turn1_direction == IF relative_bearing > 0 THEN "left" ELSE "right"
        turn2_direction == IF relative_bearing > 0 THEN "right" ELSE "left"
        base_angle == BaseAngle(conflict)
    IN  Returned(Strategy("heading_change",
                          IF conflict.severity \in {"CRITICAL", "HIGH"}
                          THEN "CRITICAL" ELSE "HIGH",
                          <<HeadingAction(conflict.aircraft1, turn1_direction, base_angle),
                            HeadingAction(conflict.aircraft2, turn2_direction, base_angle)>>,
                          conflict, conflict_analysis))

\* altitudes in hundredths of a foot
SuggestAltitudeChange(conflict, aircraft_list, conflict_analysis) ==
    LET first_higher == conflict.aircraft1.altitude > conflict.aircraft2.altitude
        climb_aircraft == IF first_higher THEN conflict.aircraft2 ELSE conflict.aircraft1
        descend_aircraft == IF first_higher THEN conflict.aircraft1 ELSE conflict.aircraft2
        altitude_change ==
            IF EnumEqualsStr(conflict.severity, "critical") THEN 200000
            ELSE IF EnumEqualsStr(conflict.severity, "high") THEN 150000
            ELSE 100000
    IN  Returned(Strategy("altitude_change",
                          IF conflict.severity \in {"CRITICAL", "HIGH"}
                          THEN "HIGH" ELSE "MEDIUM",
                          <<[aircraft |-> climb_aircraft.icao24, action |-> "altitude_change",
                             direction |-> "climb", altitude_change |-> altitude_change,
                             new_altitude |-> climb_aircraft.altitude + altitude_change],
                            [aircraft |-> descend_aircraft.icao24, action |-> "altitude_change",
                             direction |-> "descend", altitude_change |-> altitude_change,
                             new_altitude |-> descend_aircraft.altitude - altitude_change]>>,
                          conflict, conflict_analysis))

\* velocity * 1.944: m/s to knots, in thousandths of a knot
Knots(velocity) == velocity * 1944

\* max(speed_kts - reduction, 200), speeds in thousandths of a knot
SpeedAction(aircraft, reduction) ==
    [aircraft |-> aircraft.icao24, action |-> "speed_adjustment",
     speed_change |-> -reduction,
     new_speed |-> IF Knots(aircraft.velocity) - reduction * 1000 > 200000
                   THEN Knots(aircraft.velocity) - reduction * 1000 ELSE 200000]

SuggestSpeedAdjustment(conflict, aircraft_list, conflict_analysis) ==
    LET speed_reduction ==
            IF EnumEqualsStr(conflict.severity, "critical") THEN 100
            ELSE IF EnumEqualsStr(conflict.severity, "high") THEN 75
            ELSE 50
    IN  Returned(Strategy("speed_adjustment", "MEDIUM",
                          <<SpeedAction(conflict.aircraft1, speed_reduction),
                            SpeedAction(conflict.aircraft2, speed_reduction)>>,
                          conflict, conflict_analysis))

\* the description formats vector_angle with :03d
SuggestVectorClearance(conflict, aircraft_list, conflict_analysis) ==
    LET vector_angle == CalculateAvoidanceVector(conflict.aircraft1, conflict.aircraft2)
    IN  IF FormatD03Raises(vector_angle) THEN Raised
        ELSE Returned(Strategy("vector_clearance", "HIGH",
                               <<[aircraft |-> conflict.aircraft1.icao24,
                                  action |-> "vector_clearance",
                                  heading |-> vector_angle.value, duration |-> 300],
                                 [aircraft |-> conflict.aircraft2.icao24,
                                  action |-> "vector_clearance",
                                  heading |-> (vector_angle.value + 180000) % 360000,
                                  duration |-> 300]>>,
                               conflict, conflict_analysis))

SuggestHoldingPattern(conflict, aircraft_list, conflict_analysis) ==
    LET holding_aircraft ==
            IF conflict.aircraft1.altitude < conflict.aircraft2.altitude
            THEN conflict.aircraft1 ELSE conflict.aircraft2
    IN  Returned(Strategy("holding_pattern", "LOW",
                          <<[aircraft |-> holding_aircraft.icao24,
                             action |-> "holding_pattern", duration |-> 600]>>,
                          conflict, conflict_analysis))

\* the waypoint text formats deviation_angle with :03d
SuggestRouteDeviation(conflict, aircraft_list, conflict_analysis) ==
    LET deviation_angle == CalculateAvoidanceVector(conflict.aircraft1, conflict.aircraft2)
    IN  IF FormatD03Raises(deviation_angle) THEN Raised
        ELSE Returned(Strategy("route_deviation", "MEDIUM",
                               <<[aircraft |-> conflict.aircraft1.icao24,
                                  action |-> "route_deviation",
                                  distance |-> 10000, duration |-> 600]>>,
                               conflict, conflict_analysis))

SuggestCombinedStrategy(conflict, aircraft_list, conflict_analysis) ==
    Returned(Strategy("combined", "HIGH",
                      <<HeadingAction(conflict.aircraft1, "left", 15),
                        SpeedAction(conflict.aircraft1, 25),
                        HeadingAction(conflict.aircraft2, "right", 15),
                        SpeedAction(conflict.aircraft2, 25)>>,
                      conflict, conflict_analysis))

\* strategy_func(conflict, aircraft_list, conflict_analysis)
StrategyFunc(strategy_type, conflict, aircraft_list, conflict_analysis) ==
    CASE strategy_type = "heading_change" ->
            SuggestHeadingChange(conflict, aircraft_list, conflict_analysis)
      [] strategy_type = "altitude_change" ->
            SuggestAltitudeChange(conflict, aircraft_list, conflict_analysis)
      [] strategy_type = "speed_adjustment" ->
            SuggestSpeedAdjustment(conflict, aircraft_list, conflict_analysis)
      [] strategy_type = "vector_clearance" ->
            SuggestVectorClearance(conflict, aircraft_list, conflict_analysis)
      [] strategy_type = "holding_pattern" ->
            SuggestHoldingPattern(conflict, aircraft_list, conflict_analysis)
      [] strategy_type = "route_deviation" ->
            SuggestRouteDeviation(conflict, aircraft_list, conflict_analysis)
      [] strategy_type = "combined" ->
            SuggestCombinedStrategy(conflict, aircraft_list, conflict_analysis)

----------------------------------------------------------------------------
(* generate_resolution_strategies *)

\* the loop over the generators whose except branch keeps a placeholder for
\* the failed generator: top priority, nothing scored
GenerateLoopKeepFailed(conflict, aircraft_list, conflict_analysis, k, acc) ==
    LET RECURSIVE Loop(_, _)
        Loop(i, st) ==
            IF i > Len(resolution_strategies) THEN st
            ELSE LET out == StrategyFunc(resolution_strategies[i], conflict,
                                         aircraft_list, conflict_analysis)
                 IN  IF out.raised
                     THEN Loop(i + 1,
                               [st EXCEPT !.invoked = Append(@, resolution_strategies[i]),
                                          !.raised = Append(@, resolution_strategies[i]),
                                          !.strategies = Append(@,
                                              [strategy_type |-> resolution_strategies[i],
                                               priority |-> "CRITICAL",
                                               actions |-> <<>>,
                                               confidence |-> 0,
                                               success_probability |-> 0])])
                     ELSE IF out.strategy.confidence >= min_confidence_threshold
                     THEN Loop(i + 1, [st EXCEPT !.invoked = Append(@, resolution_strategies[i]),
                                                 !.strategies = Append(@, out.strategy),
                                                 !.count = @ + 1])
                     ELSE Loop(i + 1, [st EXCEPT !.invoked = Append(@, resolution_strategies[i])])
    IN  Loop(k, acc)

\* the loop over the generators: a strategy is kept if its confidence reaches
\* the threshold, a generator that raises is skipped
GenerateLoop(conflict, aircraft_list, conflict_analysis, k, acc) ==
    LET RECURSIVE Loop(_, _)
        Loop(i, st) ==
            IF i > Len(resolution_strategies) THEN st
            ELSE LET out == StrategyFunc(resolution_strategies[i], conflict,
                                         aircraft_list, conflict_analysis)
                 IN  IF out.raised
                     THEN Loop(i + 1,
                               [st EXCEPT !.invoked = Append(@, resolution_strategies[i]),
                                          !.raised = Append(@, resolution_strategies[i])])
                     ELSE IF out.strategy.confidence >= min_confidence_threshold
                     THEN Loop(i + 1, [st EXCEPT !.invoked = Append(@, resolution_strategies[i]),
                                                 !.strategies = Append(@, out.strategy),
                                                 !.count = @ + 1])
                     ELSE Loop(i + 1, [st EXCEPT !.invoked = Append(@, resolution_strategies[i])])
    IN  Loop(k, acc)

\* the sort key with the confidence not negated: ascending confidence
SortKeyConfidenceAscending(x) ==
    <<PriorityValue[x.priority], x.confidence, -x.success_probability>>

\* key=lambda x: (x.priority.value, -x.confidence, -x.success_probability)
SortKey(x) == <<PriorityValue[x.priority], -x.confidence, -x.success_probability>>

\* tuple comparison of two sort keys: a < b
KeyLess(a, b) ==
    \/ a[1] < b[1]
    \/ a[1] = b[1] /\ a[2] < b[2]
    \/ a[1] = b[1] /\ a[2] = b[2] /\ a[3] < b[3]

\* list.sort is stable: x goes behind every element whose key is not greater
Insert(sorted, x) ==
    LET before == {n \in 1..Len(sorted) : ~KeyLess(SortKey(x), SortKey(sorted[n]))}
        at == IF before = {} THEN 0 ELSE CHOOSE n \in before : \A q \in before : q <= n
    IN  SubSeq(sorted, 1, at) \o <<x>> \o SubSeq(sorted, at + 1, Len(sorted))

RECURSIVE SortStrategies(_, _, _)
SortStrategies(strategies, k, sorted) ==
    IF k > Len(strategies) THEN sorted
    ELSE SortStrategies(strategies, k + 1, Insert(sorted, strategies[k]))

\* strategies[:max_strategies_per_conflict]
Truncate(strategies) ==
    SubSeq(strategies, 1,
           IF Len(strategies) < max_strategies_per_conflict
           THEN Len(strategies) ELSE max_strategies_per_conflict)

\* the initial state of the loop over the generators
EmptyLoop(count) ==
    [strategies |-> <<>>, invoked |-> <<>>, raised |-> <<>>, count |-> count]

\* generate_resolution_strategies without the try around the generator call:
\* the first exception of a generator leaves the method
GenerateResolutionStrategiesUnguarded(conflict, aircraft_list, count) ==
    LET conflict_analysis == AnalyzeConflict(conflict, aircraft_list)
        loop == GenerateLoop(conflict, aircraft_list, conflict_analysis, 1, EmptyLoop(count))
        first == CHOOSE n \in 1..Len(loop.invoked) :
                    /\ loop.invoked[n] = loop.raised[1]
                    /\ \A q \in 1..(n - 1) : loop.invoked[q] # loop.raised[1]
    IN  IF loop.raised = <<>>
        THEN [raises |-> FALSE,
              density |-> conflict_analysis.traffic_density,
              invoked |-> loop.invoked,
              raised |-> loop.raised,
              candidates |-> loop.strategies,
              strategies |-> Truncate(SortStrategies(loop.strategies, 1, <<>>)),
              count |-> loop.count]
        ELSE [raises |-> TRUE,
              density |-> conflict_analysis.traffic_density,
              invoked |-> SubSeq(loop.invoked, 1, first),
              raised |-> <<loop.raised[1]>>,
              candidates |-> <<>>,
              strategies |-> <<>>,
              count |-> count + first - 1]

GenerateResolutionStrategies(conflict, aircraft_list, count) ==
    LET conflict_analysis == AnalyzeConflict(conflict, aircraft_list)
        loop == GenerateLoop(conflict, aircraft_list, conflict_analysis, 1, EmptyLoop(count))
    IN  [raises |-> FALSE,
         density |-> conflict_analysis.traffic_density,
         invoked |-> loop.invoked,
         raised |-> loop.raised,
         candidates |-> loop.strategies,
         strategies |-> Truncate(SortStrategies(loop.strategies, 1, <<>>)),
         count |-> loop.count]

----------------------------------------------------------------------------
(* SpecGen: generate_resolution_strategies called for detected conflicts *)

\* the alerts detect_conflicts returns for two aircraft: any two of the
\* kinematic states, and an aircraft at 90 m/s (175 kt) caught up by one at
\* cruise speed
DetectedConflicts ==
    UNION {{DetectConflicts(s, 0)[n] : n \in 1..Len(DetectConflicts(s, 0))} :
           s \in {<<MakeAircraft(1, k1), MakeAircraft(2, k2)>> : k1, k2 \in Kinematics}
                 \cup {<<[MakeAircraft(1, Track(-74000, 3500000, 90, 0)) EXCEPT !.velocity = 90],
                         MakeAircraft(2, Track(-74000, 3500000, 90, 0))>>}}

\* a context list of n aircraft around the first aircraft of the conflict
Traffic(conflict, n) ==
    [i \in 1..n |-> [conflict.aircraft1 EXCEPT !.icao24 = 2 + i]]

\* the context lists generate is called with: the two aircraft of the
\* conflict, no aircraft, the two aircraft among dense traffic
ContextLists(conflict) ==
    {<<conflict.aircraft1, conflict.aircraft2>>,
     <<>>,
     <<conflict.aircraft1, conflict.aircraft2>> \o Traffic(conflict, DenseContextLen - 2)}

GenerateCall(conflict, aircraft_list) ==
    /\ strategies_generated < MaxGenerated
    /\ \E r \in {GenerateResolutionStrategies(conflict, aircraft_list, strategies_generated)} :
           /\ r.count <= MaxGenerated
           /\ strategies_generated' = r.count
           /\ generated' = [called |-> TRUE, raises |-> r.raises, conflict |-> conflict,
                            context |-> Len(aircraft_list), density |-> r.density,
                            invoked |-> r.invoked,
                            raised |-> r.raised, candidates |-> r.candidates,
                            strategies |-> r.strategies]
    /\ UNCHANGED <<strategies_accepted, strategies_rejected, strategy_history,
                   detectorVars, detectVars, headOnVars, coordVars>>

\* record_strategy_outcome that counts every outcome as accepted and rejected
RecordOutcomeBothCounters(history, accepted_count, rejected_count, strategy_id, accepted) ==
    [history |-> Append(history, [strategy_id |-> strategy_id, accepted |-> accepted]),
     accepted |-> accepted_count + 1,
     rejected |-> rejected_count + 1]

\* record_strategy_outcome; resolution_time and timestamp of the record are
\* not read by anything
RecordOutcome(history, accepted_count, rejected_count, strategy_id, accepted) ==
    [history |-> Append(history, [strategy_id |-> strategy_id, accepted |-> accepted]),
     accepted |-> IF accepted THEN accepted_count + 1 ELSE accepted_count,
     rejected |-> IF accepted THEN rejected_count ELSE rejected_count + 1]

StrategyIds == 1..NumStrategyIds

RecordStrategyOutcome(strategy_id, accepted) ==
    /\ Len(strategy_history) < MaxHistory
    /\ LET r == RecordOutcome(strategy_history, strategies_accepted, strategies_rejected,
                              strategy_id, accepted)
       IN  /\ strategy_history' = r.history
           /\ strategies_accepted' = r.accepted
           /\ strategies_rejected' = r.rejected
    /\ UNCHANGED <<strategies_generated, generated, detectorVars, detectVars, headOnVars, coordVars>>

InitGen == ResolutionIdle /\ DetectorIdle /\ DetectIdle /\ HeadOnIdle /\ CoordinatorIdle

NextGen ==
    \/ \E conflict \in DetectedConflicts :
          \E aircraft_list \in ContextLists(conflict) : GenerateCall(conflict, aircraft_list)
    \/ \E strategy_id \in StrategyIds, accepted \in BOOLEAN :
          RecordStrategyOutcome(strategy_id, accepted)

SpecGen == InitGen /\ [][NextGen]_vars

----------------------------------------------------------------------------
(* Properties of generate_resolution_strategies, checked under SpecGen *)

\* C9: generate returns at most 5 strategies, each with confidence at
\* least 0.5.
AtMostFiveConfident ==
    generated.called =>
        /\ Len(generated.strategies) <= 5
        /\ \A n \in 1..Len(generated.strategies) :
              generated.strategies[n].confidence >= 50

\* a call in which generators raised, a strategy scored below the base
\* confidence was returned and the list is full
FullListSeen ==
    /\ generated.called
    /\ generated.raised # <<>>
    /\ Len(generated.strategies) = 5
    /\ \E n \in 1..Len(generated.strategies) : generated.strategies[n].confidence < 70

\* s is at least as good as t in the order of the claim
NotWorse(s, t) ==
    \/ PriorityValue[s.priority] < PriorityValue[t.priority]
    \/ /\ s.priority = t.priority
       /\ s.confidence > t.confidence
    \/ /\ s.priority = t.priority
       /\ s.confidence = t.confidence
       /\ s.success_probability >= t.success_probability

\* the candidates that passed the filter and were not returned
Discarded ==
    {generated.candidates[n] : n \in 1..Len(generated.candidates)} \
    {generated.strategies[n] : n \in 1..Len(generated.strategies)}

\* C10: the returned list is best-first: of two consecutive strategies the
\* first has the lower or equal priority tier, on equal tier the higher or
\* equal confidence, on equal tier and confidence the higher or equal success
\* probability; no candidate cut off by the cap outranks a returned one.
BestFirst ==
    generated.called =>
        /\ \A n \in 1..(Len(generated.strategies) - 1) :
              NotWorse(generated.strategies[n], generated.strategies[n + 1])
        /\ \A d \in Discarded : \A n \in 1..Len(generated.strategies) :
              NotWorse(generated.strategies[n], d)

\* a call whose result has two strategies of one tier ordered by confidence
\* and is not in the order the generators ran in
SortedSeen ==
    /\ generated.called
    /\ generated.strategies # generated.candidates
    /\ \E n \in 1..(Len(generated.strategies) - 1) :
          /\ generated.strategies[n].priority = generated.strategies[n + 1].priority
          /\ generated.strategies[n].confidence > generated.strategies[n + 1].confidence

\* the heading-change strategies of the last result
HeadingChanges ==
    {n \in 1..Len(generated.strategies) :
        generated.strategies[n].strategy_type = "heading_change"}

\* C11: the heading-change strategy turns both aircraft by 45 degrees for a
\* Critical conflict, 30 for High, 20 for Medium and 15 for Low.
TurnAngleBySeverity ==
    generated.called =>
        \A n \in HeadingChanges : \A a \in 1..Len(generated.strategies[n].actions) :
            generated.strategies[n].actions[a].angle =
                CASE generated.conflict.severity = "CRITICAL" -> 45
                  [] generated.conflict.severity = "HIGH" -> 30
                  [] generated.conflict.severity = "MEDIUM" -> 20
                  [] generated.conflict.severity = "LOW" -> 15

\* C12: a step that records an outcome appends exactly one record to the
\* history and adds exactly 1 to exactly one counter, the acceptance counter
\* for an accepted outcome and the rejection counter otherwise; the generated
\* counter and the last result are unchanged, and generate on the same input
\* still returns the same list.
RecordOutcomeOnlyCounts ==
    [][strategy_history' # strategy_history =>
          /\ Len(strategy_history') = Len(strategy_history) + 1
          /\ SubSeq(strategy_history', 1, Len(strategy_history)) = strategy_history
          /\ LET record == strategy_history'[Len(strategy_history')]
             IN  IF record.accepted
                 THEN /\ strategies_accepted' = strategies_accepted + 1
                      /\ strategies_rejected' = strategies_rejected
                 ELSE /\ strategies_accepted' = strategies_accepted
                      /\ strategies_rejected' = strategies_rejected + 1
          /\ strategies_generated' = strategies_generated
          /\ generated' = generated
          /\ generated.called =>
                \A aircraft_list \in ContextLists(generated.conflict) :
                    Len(aircraft_list) = generated.context =>
                        GenerateResolutionStrategies(generated.conflict, aircraft_list,
                                                     strategies_generated').strategies
                            = generated.strategies]_vars

\* an accepted and a rejected outcome recorded after a generate call
BothOutcomesSeen ==
    /\ generated.called
    /\ Len(strategy_history) = 2
    /\ strategies_accepted = 1
    /\ strategies_rejected = 1

\* C13: when generators raise, generate itself does not raise; all seven
\* generators are invoked in the order of the table, a generator that raised
\* contributes no candidate, and what is returned is the ranking of the
\* candidates of the other generators.
RaisingGeneratorIsolated ==
    (generated.called /\ generated.raised # <<>>) =>
        /\ ~generated.raises
        /\ generated.invoked = resolution_strategies
        /\ \A n \in 1..Len(generated.candidates) : \A q \in 1..Len(generated.raised) :
              generated.candidates[n].strategy_type # generated.raised[q]
        /\ \A i \in 1..Len(resolution_strategies) :
              (\A q \in 1..Len(generated.raised) :
                    generated.raised[q] # resolution_strategies[i]) =>
                  \E n \in 1..Len(generated.strategies) :
                      generated.strategies[n].strategy_type = resolution_strategies[i]
        /\ generated.strategies = Truncate(SortStrategies(generated.candidates, 1, <<>>))

\* a call in which a generator raised and generators after it in the table
\* still delivered strategies that were returned
LaterGeneratorsSeen ==
    /\ generated.called
    /\ ~generated.raises
    /\ \E q \in 1..Len(generated.raised) : generated.raised[q] = "vector_clearance"
    /\ \E n \in 1..Len(generated.strategies) :
          generated.strategies[n].strategy_type = "holding_pattern"
    /\ \E n \in 1..Len(generated.strategies) :
          generated.strategies[n].strategy_type = "combined"

----------------------------------------------------------------------------
(* AgentCoordinator: events, queue and history *)

max_event_history == 1000

\* self.event_queue[:10]: events looked at per cycle
BatchLimit == 10

\* an AgentEvent; event_id and timestamp come from the same clock reading,
\* data keeps the conflict_id entry (<<>> if the dict has none)
AgentEvent(stamp, event_type, priority, conflict_id) ==
    [event_id |-> stamp, event_type |-> event_type, timestamp |-> stamp,
     priority |-> priority, processed |-> FALSE, conflict_id |-> conflict_id,
     seq |-> 0]

\* list.sort(key=lambda x: x.priority) is stable: x goes behind every
\* element whose priority is not greater
InsertByPriority(sorted, x) ==
    LET before == {n \in 1..Len(sorted) : sorted[n].priority <= x.priority}
        at == IF before = {} THEN 0 ELSE CHOOSE n \in before : \A q \in before : q <= n
    IN  SubSeq(sorted, 1, at) \o <<x>> \o SubSeq(sorted, at + 1, Len(sorted))

RECURSIVE SortByPriority(_, _, _)
SortByPriority(queue, k, sorted) ==
    IF k > Len(queue) THEN sorted
    ELSE SortByPriority(queue, k + 1, InsertByPriority(sorted, queue[k]))

\* emit_event that appends and does not sort
EmitAppendOnly(queue, event) == Append(queue, event)

\* emit_event: append, then sort the whole queue by priority
Emit(queue, event) == SortByPriority(Append(queue, event), 1, <<>>)

\* [event for event in self.event_queue if not event.processed] that keeps
\* every event
RemoveProcessedKeepAll(queue) == queue

\* [event for event in self.event_queue if not event.processed]
RemoveProcessed(queue) == SelectSeq(queue, LAMBDA event : ~event.processed)

\* the unprocessed events among the first ten of the queue
EventsToProcess(queue) ==
    SelectSeq(SubSeq(queue, 1, IF Len(queue) < BatchLimit THEN Len(queue) ELSE BatchLimit),
              LAMBDA event : ~event.processed)

\* append one event to the history and cut the history to its last
\* max_event_history entries
Archive(history, event) ==
    LET longer == Append(history, event)
    IN  IF Len(longer) > max_event_history
        THEN SubSeq(longer, Len(longer) - max_event_history + 1, Len(longer))
        ELSE longer

RECURSIVE ArchiveAll(_, _, _)
ArchiveAll(history, events, k) ==
    IF k > Len(events) THEN history
    ELSE ArchiveAll(Archive(history, events[k]), events, k + 1)

\* key=lambda x: x.timestamp, reverse=True
NewerFirst(a, b) == a.timestamp > b.timestamp

\* get_event_history: what it leaves in self.event_history. Without an event
\* type, history is the list object self.event_history itself and
\* history.sort sorts it in place; with one, the filter builds a new list.
HistoryAfterQuery(history, event_type) ==
    IF event_type = "None" THEN SortSeq(history, NewerFirst) ELSE history

\* position of the event with this id in a list of events
IndexOf(events, event_id) == CHOOSE n \in 1..Len(events) : events[n].event_id = event_id

----------------------------------------------------------------------------
(* AgentCoordinator: handlers *)

\* _handle_resolution_accepted: forwards resolve_conflict if the event names
\* a conflict; the other default handlers only log
DefaultHandler(event, st) ==
    IF event.event_type = "resolution_accepted" /\ event.conflict_id # <<>>
    THEN [st EXCEPT !.active = Resolve(st.active, event.conflict_id).active,
                    !.forwarded = Append(@, event.conflict_id)]
    ELSE st

\* handler(event) for the default handler and the two kinds of handler a
\* caller registers: one that raises, one that emits a conflict_resolved
\* event of priority 1
CallHandler(behaviour, event, st) ==
    CASE behaviour = "default" -> [raised |-> FALSE, st |-> DefaultHandler(event, st)]
      [] behaviour = "raises" -> [raised |-> TRUE, st |-> st]
      [] behaviour = "emits" ->
            [raised |-> FALSE,
             st |-> [st EXCEPT !.queue = Emit(@, AgentEvent(st.emitted + 1,
                                                           "conflict_resolved", 1, <<>>)),
                               !.emitted = @ + 1]]

\* _process_event whose handler loop ends at the first handler that raises
ProcessEventStopOnRaise(event, handlers, st0) ==
    LET RECURSIVE Loop(_, _)
        Loop(k, st) ==
            IF k > Len(handlers[event.event_type]) THEN st
            ELSE LET out == CallHandler(handlers[event.event_type][k], event, st)
                 IN  IF out.raised
                     THEN [out.st EXCEPT !.invoked = Append(@, k), !.raised = Append(@, k)]
                     ELSE Loop(k + 1, [out.st EXCEPT !.invoked = Append(@, k)])
    IN  Loop(1, st0)

\* _process_event: every handler of the event's type is called in its own
\* try block
ProcessEvent(event, handlers, st0) ==
    LET RECURSIVE Loop(_, _)
        Loop(k, st) ==
            IF k > Len(handlers[event.event_type]) THEN st
            ELSE LET out == CallHandler(handlers[event.event_type][k], event, st)
                 IN  IF out.raised
                     THEN Loop(k + 1, [out.st EXCEPT !.invoked = Append(@, k),
                                                     !.raised = Append(@, k)])
                     ELSE Loop(k + 1, [out.st EXCEPT !.invoked = Append(@, k)])
    IN  Loop(1, st0)

----------------------------------------------------------------------------
(* AgentCoordinator: the loop task and its callers *)

\* a task stands at an await that suspends it (the end-of-cycle sleep), has
\* not run yet, or has ended, whatever its position
AtAwaitAnywhere(task) == TRUE

\* a task stands at an await that suspends it (the end-of-cycle sleep, or the
\* sleep of the except branch), has not run yet, or has ended
AtAwait(task) == task.pc \in {"start", "sleep", "retry", "done"}

\* no loop task is in the middle of a cycle: another coroutine or a caller
\* can run
Suspended == \A n \in 1..Len(tasks) : AtAwait(tasks[n])

\* start_coordination without the is_running test
StartUnguarded(running, loop_tasks) ==
    [is_running |-> TRUE,
     tasks |-> Append(loop_tasks, [pc |-> "start", cancel |-> FALSE])]

\* start_coordination
Start(running, loop_tasks) ==
    IF ~running
    THEN [is_running |-> TRUE,
          tasks |-> Append(loop_tasks, [pc |-> "start", cancel |-> FALSE])]
    ELSE [is_running |-> running, tasks |-> loop_tasks]

\* stop_coordination: coordination_task is the task created last
Stop(running, loop_tasks) ==
    IF running
    THEN [is_running |-> FALSE,
          tasks |-> IF loop_tasks # <<>>
                    THEN [loop_tasks EXCEPT ![Len(loop_tasks)].cancel = TRUE]
                    ELSE loop_tasks]
    ELSE [is_running |-> running, tasks |-> loop_tasks]

StartCoordination ==
    /\ Suspended
    /\ is_running \/ Len(tasks) < MaxTasks
    /\ LET r == Start(is_running, tasks)
       IN  is_running' = r.is_running /\ tasks' = r.tasks
    /\ UNCHANGED <<event_queue, event_handlers, event_history, events_processed,
                   events_failed, coordination_cycles, agent_status, emitted, budget,
                   cycle, detectorVars, detectVars, headOnVars, genVars>>

StopCoordination ==
    /\ Suspended
    /\ LET r == Stop(is_running, tasks)
       IN  is_running' = r.is_running /\ tasks' = r.tasks
    /\ UNCHANGED <<event_queue, event_handlers, event_history, events_processed,
                   events_failed, coordination_cycles, agent_status, emitted, budget,
                   cycle, detectorVars, detectVars, headOnVars, genVars>>

\* a cancelled task gets CancelledError at its await and ends; except
\* Exception does not catch it
TaskCancelled(n) ==
    /\ Suspended
    /\ tasks[n].pc # "done"
    /\ AtAwait(tasks[n])
    /\ tasks[n].cancel
    /\ tasks' = [tasks EXCEPT ![n].pc = "done"]
    /\ UNCHANGED <<event_queue, event_handlers, event_history, is_running,
                   events_processed, events_failed, coordination_cycles, agent_status,
                   emitted, budget, cycle, detectorVars, detectVars, headOnVars, genVars>>

EmitEvent(event_type, priority, conflict_id) ==
    /\ Suspended
    /\ emitted - budget.origin < MaxEmits
    /\ event_queue' = Emit(event_queue, AgentEvent(emitted + 1, event_type, priority,
                                                   conflict_id))
    /\ emitted' = emitted + 1
    /\ UNCHANGED <<event_handlers, event_history, is_running, tasks, events_processed,
                   events_failed, coordination_cycles, agent_status, budget, cycle,
                   detectorVars, detectVars, headOnVars, genVars>>

RegisterEventHandler(event_type, behaviour) ==
    /\ Suspended
    /\ budget.registered < MaxCustomHandlers
    /\ event_handlers' = [event_handlers EXCEPT ![event_type] = Append(@, behaviour)]
    /\ budget' = [budget EXCEPT !.registered = @ + 1]
    /\ UNCHANGED <<event_queue, event_history, is_running, tasks, events_processed,
                   events_failed, coordination_cycles, agent_status, emitted, cycle,
                   detectorVars, detectVars, headOnVars, genVars>>

GetEventHistory(event_type) ==
    /\ Suspended
    /\ event_history' = HistoryAfterQuery(event_history, event_type)
    /\ UNCHANGED <<event_queue, event_handlers, is_running, tasks, events_processed,
                   events_failed, coordination_cycles, agent_status, emitted, budget, cycle,
                   detectorVars, detectVars, headOnVars, genVars>>

\* the task wakes from its sleep (or runs for the first time), tests the
\* flag and enters _process_events, which picks the events of this cycle;
\* the cycle counter is incremented after the sleep of the try branch only
BeginCycle(n) ==
    /\ Suspended
    /\ tasks[n].pc \in {"start", "sleep", "retry"}
    /\ ~tasks[n].cancel
    /\ cycle.number < MaxCycles
    /\ coordination_cycles' =
          IF tasks[n].pc = "sleep" THEN coordination_cycles + 1 ELSE coordination_cycles
    /\ IF is_running
       THEN /\ tasks' = [tasks EXCEPT ![n].pc = "process"]
            /\ cycle' = [number |-> cycle.number + 1,
                         at_start |-> event_queue,
                         selected |-> [k \in 1..Len(EventsToProcess(event_queue)) |->
                                          EventsToProcess(event_queue)[k].event_id],
                         index |-> 1,
                         log |-> <<>>]
       ELSE /\ tasks' = [tasks EXCEPT ![n].pc = "done"]
            /\ cycle' = cycle
    /\ UNCHANGED <<event_queue, event_handlers, event_history, is_running,
                   events_processed, events_failed, agent_status, emitted, budget,
                   detectorVars, detectVars, headOnVars, genVars>>

\* one round of the loop over events_to_process: _process_event, then the
\* event is marked processed and counted
DispatchEvent(n) ==
    /\ tasks[n].pc = "process"
    /\ cycle.index <= Len(cycle.selected)
    /\ LET event == event_queue[IndexOf(event_queue, cycle.selected[cycle.index])]
           out == ProcessEvent(event, event_handlers,
                               [queue |-> event_queue, active |-> active_conflicts,
                                emitted |-> emitted, forwarded |-> <<>>,
                                invoked |-> <<>>, raised |-> <<>>])
           at == IndexOf(out.queue, event.event_id)
       IN  /\ event_queue' = [out.queue EXCEPT ![at].processed = TRUE,
                                               ![at].seq = events_processed + events_failed + 1]
           /\ events_processed' = events_processed + 1
           /\ emitted' = out.emitted
           /\ active_conflicts' = out.active
           /\ last' = IF out.forwarded = <<>> THEN last
                      ELSE [Seen("resolve", out.forwarded[Len(out.forwarded)])
                               EXCEPT !.found = out.active # active_conflicts]
           /\ cycle' = [cycle EXCEPT
                 !.index = @ + 1,
                 !.log = Append(@, [event_id |-> event.event_id,
                                    event_type |-> event.event_type,
                                    conflict_id |-> event.conflict_id,
                                    handlers |-> Len(event_handlers[event.event_type]),
                                    invoked |-> out.invoked,
                                    raised |-> out.raised,
                                    forwarded |-> out.forwarded])]
    /\ UNCHANGED <<event_handlers, event_history, is_running, tasks, events_failed,
                   coordination_cycles, agent_status, budget,
                   detection_count, conflict_callbacks, is_monitoring, loops, clock,
                   detectVars, headOnVars, genVars>>

\* the rest of the cycle: processed events leave the queue, the events of the
\* cycle are archived, _update_agent_status refreshes the snapshot, and the
\* task suspends in asyncio.sleep
FinishCycle(n) ==
    /\ tasks[n].pc = "process"
    /\ cycle.index > Len(cycle.selected)
    /\ event_queue' = RemoveProcessed(event_queue)
    /\ event_history' =
          ArchiveAll(event_history,
                     [k \in 1..Len(cycle.selected) |->
                         event_queue[IndexOf(event_queue, cycle.selected[k])]], 1)
    /\ agent_status' = [conflict_detector |-> IF is_monitoring THEN "active" ELSE "inactive",
                        active_conflicts |-> Cardinality(DOMAIN active_conflicts),
                        last_update |-> cycle.number]
    /\ tasks' = [tasks EXCEPT ![n].pc = "sleep"]
    /\ cycle' = [cycle EXCEPT !.index = 0]
    /\ UNCHANGED <<event_handlers, is_running, events_processed, events_failed,
                   coordination_cycles, emitted, budget,
                   detectorVars, detectVars, headOnVars, genVars>>

\* emit_event called on another thread: nothing keeps it from running while
\* the loop task is inside a cycle
ThreadEmit(event_type, priority, conflict_id) ==
    /\ emitted - budget.origin < MaxEmits
    /\ event_queue' = Emit(event_queue, AgentEvent(emitted + 1, event_type, priority,
                                                   conflict_id))
    /\ emitted' = emitted + 1
    /\ UNCHANGED <<event_handlers, event_history, is_running, tasks, events_processed,
                   events_failed, coordination_cycles, agent_status, budget, cycle,
                   detectorVars, detectVars, headOnVars, genVars>>

\* the list comprehension of line 169 that drops every event, processed or
\* not
RebuildQueueEmpty(n) ==
    /\ tasks[n].pc = "process"
    /\ cycle.index > Len(cycle.selected)
    /\ tasks' = [tasks EXCEPT ![n] = [pc |-> "store", cancel |-> tasks[n].cancel,
                                      rebuilt |-> <<>>, seen |-> emitted]]
    /\ UNCHANGED <<event_queue, event_handlers, event_history, is_running,
                   events_processed, events_failed, coordination_cycles, agent_status,
                   emitted, budget, cycle, detectorVars, detectVars, headOnVars, genVars>>

\* the list comprehension of line 169 has built the new list from the
\* unprocessed events of self.event_queue; the result is a temporary of the
\* task until the assignment stores it (seen: the events emitted so far)
RebuildQueue(n) ==
    /\ tasks[n].pc = "process"
    /\ cycle.index > Len(cycle.selected)
    /\ tasks' = [tasks EXCEPT ![n] = [pc |-> "store", cancel |-> tasks[n].cancel,
                                      rebuilt |-> RemoveProcessed(event_queue),
                                      seen |-> emitted]]
    /\ UNCHANGED <<event_queue, event_handlers, event_history, is_running,
                   events_processed, events_failed, coordination_cycles, agent_status,
                   emitted, budget, cycle, detectorVars, detectVars, headOnVars, genVars>>

\* the assignment of line 169 replaces the queue by the new list, and the
\* rest of the cycle follows: the events of the cycle are archived, the
\* status snapshot is refreshed, the task suspends in asyncio.sleep
StoreQueue(n) ==
    /\ tasks[n].pc = "store"
    /\ event_queue' = tasks[n].rebuilt
    /\ event_history' =
          ArchiveAll(event_history,
                     [k \in 1..Len(cycle.selected) |->
                         event_queue[IndexOf(event_queue, cycle.selected[k])]], 1)
    /\ agent_status' = [conflict_detector |-> IF is_monitoring THEN "active" ELSE "inactive",
                        active_conflicts |-> Cardinality(DOMAIN active_conflicts),
                        last_update |-> cycle.number]
    /\ tasks' = [tasks EXCEPT ![n] = [pc |-> "sleep", cancel |-> tasks[n].cancel]]
    /\ cycle' = [cycle EXCEPT !.index = 0]
    /\ UNCHANGED <<event_handlers, is_running, events_processed, events_failed,
                   coordination_cycles, emitted, budget,
                   detectorVars, detectVars, headOnVars, genVars>>

\* a cycle whose status refresh raises, with no except branch in the loop:
\* the exception ends the task
FinishCycleCrashing(n) ==
    /\ tasks[n].pc = "process"
    /\ cycle.index > Len(cycle.selected)
    /\ event_queue' = RemoveProcessed(event_queue)
    /\ event_history' =
          ArchiveAll(event_history,
                     [k \in 1..Len(cycle.selected) |->
                         event_queue[IndexOf(event_queue, cycle.selected[k])]], 1)
    /\ tasks' = [tasks EXCEPT ![n].pc = "done"]
    /\ cycle' = [cycle EXCEPT !.index = 0]
    /\ UNCHANGED <<event_handlers, is_running, events_processed, events_failed,
                   coordination_cycles, agent_status, emitted, budget,
                   detectorVars, detectVars, headOnVars, genVars>>

\* the rest of a cycle in which conflict_detector.get_performance_metrics()
\* raises: _process_events has removed and archived the events, the status
\* snapshot is not refreshed, the except branch logs and suspends in
\* asyncio.sleep(coordination_interval)
FinishCycleFailing(n) ==
    /\ tasks[n].pc = "process"
    /\ cycle.index > Len(cycle.selected)
    /\ event_queue' = RemoveProcessed(event_queue)
    /\ event_history' =
          ArchiveAll(event_history,
                     [k \in 1..Len(cycle.selected) |->
                         event_queue[IndexOf(event_queue, cycle.selected[k])]], 1)
    /\ tasks' = [tasks EXCEPT ![n].pc = "retry"]
    /\ cycle' = [cycle EXCEPT !.index = 0]
    /\ UNCHANGED <<event_handlers, is_running, events_processed, events_failed,
                   coordination_cycles, agent_status, emitted, budget,
                   detectorVars, detectVars, headOnVars, genVars>>

----------------------------------------------------------------------------
(* SpecCoord, SpecBacklog, SpecArchive: the coordinator and its callers *)

\* the registry of a detector that has no alert, and of one whose monitoring
\* cycle found aircraft 1 and 2 in current breach
LoadedRegistry ==
    ProcessDetectedConflicts(
        DetectConflicts(<<MakeAircraft(1, Track(-74000, 3500000, 90, 0)),
                          MakeAircraft(2, Track(-74000, 3500000, 90, 0))>>, 0),
        EmptyMap, 0, <<>>)

\* the conflict ids a resolution_accepted event carries: the registry key
\* or the alert id of the alert
EventConflictIds ==
    DOMAIN LoadedRegistry.active
        \cup {LoadedRegistry.active[key].alert_id : key \in DOMAIN LoadedRegistry.active}

\* the events emitted from outside the dispatch loop
EmittedKinds ==
    {<<"resolution_accepted", conflict_id>> : conflict_id \in EventConflictIds}
        \cup {<<"aircraft_update", <<>> >>}

\* the handlers callers register
RegisteredKinds == {"raises", "emits"}

DetectorLoaded ==
    /\ active_conflicts = LoadedRegistry.active
    /\ detection_count = LoadedRegistry.count
    /\ conflict_callbacks = <<>>
    /\ is_monitoring = FALSE
    /\ loops = 0
    /\ clock = Len(LoadedRegistry.log)
    /\ last = NoOperation

NextCoord ==
    \/ StartCoordination
    \/ StopCoordination
    \/ \E n \in 1..Len(tasks) : TaskCancelled(n)
    \/ \E kind \in EmittedKinds, priority \in 1..MaxPriority :
          EmitEvent(kind[1], priority, kind[2])
    \/ \E behaviour \in RegisteredKinds : RegisterEventHandler("aircraft_update", behaviour)
    \/ \E event_type \in {"None", "aircraft_update"} : GetEventHistory(event_type)
    \/ \E n \in 1..Len(tasks) : BeginCycle(n)
    \/ \E n \in 1..Len(tasks) : DispatchEvent(n)
    \/ \E n \in 1..Len(tasks) : FinishCycle(n)

InitCoord ==
    /\ CoordinatorIdle
    /\ DetectorIdle \/ DetectorLoaded
    /\ DetectIdle /\ HeadOnIdle /\ ResolutionIdle

SpecCoord == InitCoord /\ [][NextCoord]_vars

\* a coordinator with QueueBacklog events emitted and none dispatched yet
BacklogQueue ==
    SortByPriority([i \in 1..QueueBacklog |->
                       AgentEvent(i, "aircraft_update", 1 + (i % MaxPriority), <<>>)],
                   1, <<>>)

InitBacklog ==
    /\ event_queue = BacklogQueue
    /\ event_handlers = DefaultHandlers
    /\ event_history = <<>>
    /\ is_running = FALSE
    /\ tasks = <<>>
    /\ events_processed = 0
    /\ events_failed = 0
    /\ coordination_cycles = 0
    /\ agent_status = InitialStatus
    /\ emitted = QueueBacklog
    /\ budget = [NoBudget EXCEPT !.origin = QueueBacklog]
    /\ cycle = NoCycle
    /\ DetectorIdle /\ DetectIdle /\ HeadOnIdle /\ ResolutionIdle

NextBacklog ==
    \/ StartCoordination
    \/ StopCoordination
    \/ \E n \in 1..Len(tasks) : TaskCancelled(n)
    \/ \E priority \in 1..MaxPriority : EmitEvent("aircraft_update", priority, <<>>)
    \/ RegisterEventHandler("aircraft_update", "emits")
    \/ \E n \in 1..Len(tasks) : BeginCycle(n)
    \/ \E n \in 1..Len(tasks) : DispatchEvent(n)
    \/ \E n \in 1..Len(tasks) : FinishCycle(n)

SpecBacklog == InitBacklog /\ [][NextBacklog]_vars

\* the events a coordinator has archived after dispatching n of them, ten a
\* cycle, without a history query
Archived(n) ==
    [i \in 1..n |-> [AgentEvent(i, "aircraft_update", 1, <<>>)
                        EXCEPT !.processed = TRUE, !.seq = i]]

\* a coordinator that was started, dispatched all but HistoryHeadroom of the
\* events its history holds, and was stopped
InitArchive ==
    /\ event_queue = <<>>
    /\ event_handlers = DefaultHandlers
    /\ event_history = Archived(max_event_history - HistoryHeadroom)
    /\ is_running = FALSE
    /\ tasks = <<[pc |-> "done", cancel |-> TRUE]>>
    /\ events_processed = max_event_history - HistoryHeadroom
    /\ events_failed = 0
    /\ coordination_cycles = (max_event_history - HistoryHeadroom + BatchLimit - 1) \div BatchLimit
    /\ agent_status = [InitialStatus EXCEPT !.conflict_detector = "inactive"]
    /\ emitted = max_event_history - HistoryHeadroom
    /\ budget = [NoBudget EXCEPT !.origin = max_event_history - HistoryHeadroom]
    /\ cycle = NoCycle
    /\ DetectorIdle /\ DetectIdle /\ HeadOnIdle /\ ResolutionIdle

NextArchive ==
    \/ StartCoordination
    \/ StopCoordination
    \/ \E n \in 1..Len(tasks) : TaskCancelled(n)
    \/ \E priority \in 1..MaxPriority : EmitEvent("aircraft_update", priority, <<>>)
    \/ \E event_type \in {"None", "aircraft_update"} : GetEventHistory(event_type)
    \/ \E n \in 1..Len(tasks) : BeginCycle(n)
    \/ \E n \in 1..Len(tasks) : DispatchEvent(n)
    \/ \E n \in 1..Len(tasks) : FinishCycle(n)

SpecArchive == InitArchive /\ [][NextArchive]_vars

\* the coordinator with a detector whose metrics accessor may raise
NextFaulty ==
    \/ StartCoordination
    \/ StopCoordination
    \/ \E n \in 1..Len(tasks) : TaskCancelled(n)
    \/ \E priority \in 1..MaxPriority : EmitEvent("aircraft_update", priority, <<>>)
    \/ \E n \in 1..Len(tasks) : BeginCycle(n)
    \/ \E n \in 1..Len(tasks) : DispatchEvent(n)
    \/ \E n \in 1..Len(tasks) : FinishCycle(n)
    \/ \E n \in 1..Len(tasks) : FinishCycleFailing(n)

SpecFaulty == InitCoord /\ [][NextFaulty]_vars

\* emit_event of a caller that keeps the queue filled: one less urgent event
\* first, then urgent events whenever the queue holds no more than a batch
StreamEmit(priority) ==
    /\ Suspended
    /\ Len(event_queue) <= BatchLimit
    /\ cycle.number < MaxCycles
    /\ priority > 1 <=> emitted = 0
    /\ event_queue' = Emit(event_queue, AgentEvent(emitted + 1, "aircraft_update", priority,
                                                   <<>>))
    /\ emitted' = emitted + 1
    /\ UNCHANGED <<event_handlers, event_history, is_running, tasks, events_processed,
                   events_failed, coordination_cycles, agent_status, budget, cycle,
                   detectorVars, detectVars, headOnVars, genVars>>

\* the coordinator under a continuing stream of urgent events
NextStream ==
    \/ StartCoordination
    \/ \E priority \in 1..MaxPriority : StreamEmit(priority)
    \/ \E n \in 1..Len(tasks) : BeginCycle(n)
    \/ \E n \in 1..Len(tasks) : DispatchEvent(n)
    \/ \E n \in 1..Len(tasks) : FinishCycle(n)

SpecStream == InitCoord /\ [][NextStream]_vars

\* the coordinator with emit_event called from the loop's thread and from
\* another thread, no lock added
NextThreads ==
    \/ StartCoordination
    \/ \E priority \in 1..MaxPriority : EmitEvent("aircraft_update", priority, <<>>)
    \/ \E priority \in 1..MaxPriority : ThreadEmit("aircraft_update", priority, <<>>)
    \/ \E n \in 1..Len(tasks) : BeginCycle(n)
    \/ \E n \in 1..Len(tasks) : DispatchEvent(n)
    \/ \E n \in 1..Len(tasks) : RebuildQueue(n)
    \/ \E n \in 1..Len(tasks) : StoreQueue(n)

SpecThreads == InitCoord /\ [][NextThreads]_vars

----------------------------------------------------------------------------
(* Properties of the coordinator *)

EventIds(events) == {events[n].event_id : n \in 1..Len(events)}

\* no loop task is in the middle of a cycle
BetweenCycles == \A n \in 1..Len(tasks) : tasks[n].pc # "process"

\* the events the last cycle selected are processed, out of the queue and in
\* the history
SelectedArchived ==
    \A k \in 1..Len(cycle.selected) :
        /\ cycle.selected[k] \notin EventIds(event_queue)
        /\ \E n \in 1..Len(event_history) :
              /\ event_history[n].event_id = cycle.selected[k]
              /\ event_history[n].processed

\* C14: every emitted event is dispatched at most once: an event handed to
\* its handlers was not processed before and is not in the history; after the
\* cycle it is marked processed, out of the queue and in the history, where no
\* event appears twice, and the queue holds unprocessed events only.
DispatchedAtMostOnce ==
    /\ [](BetweenCycles =>
            /\ SelectedArchived
            /\ \A n \in 1..Len(event_queue) : ~event_queue[n].processed
            /\ \A n, q \in 1..Len(event_history) :
                  event_history[n].event_id = event_history[q].event_id => n = q)
    /\ [][Len(cycle'.log) = Len(cycle.log) + 1 =>
            LET entry == cycle'.log[Len(cycle'.log)]
            IN  /\ entry.event_id \notin EventIds(event_history)
                /\ ~event_queue[IndexOf(event_queue, entry.event_id)].processed
                /\ \A k \in 1..Len(cycle.log) : cycle.log[k].event_id # entry.event_id]_vars

\* the second cycle has dispatched an event that a handler emitted during the
\* first cycle, and both cycles' events are archived
HandlerEventDispatched ==
    /\ BetweenCycles
    /\ cycle.number = 2
    /\ \E k \in 1..Len(cycle.log) : cycle.log[k].event_type = "conflict_resolved"
    /\ Len(event_history) >= 2

\* C15: when a handler raises for an event, all handlers of the event's type
\* are still called in order; the event is marked processed, leaves the queue
\* and is archived, and the other events of the cycle are dispatched.
RaisingHandlerIsolated ==
    \A k \in 1..Len(cycle.log) :
        cycle.log[k].raised # <<>> =>
            /\ cycle.log[k].invoked = [h \in 1..cycle.log[k].handlers |-> h]
            /\ BetweenCycles =>
                  /\ Len(cycle.log) = Len(cycle.selected)
                  /\ cycle.log[k].event_id \notin EventIds(event_queue)
                  /\ \E n \in 1..Len(event_history) :
                        /\ event_history[n].event_id = cycle.log[k].event_id
                        /\ event_history[n].processed

\* a finished cycle in which the second of three handlers raised for the
\* first event and the second event was dispatched after it
RaiseThenSiblingSeen ==
    /\ BetweenCycles
    /\ Len(cycle.log) = 2
    /\ cycle.log[1].raised = <<2>>
    /\ cycle.log[1].invoked = <<1, 2, 3>>

\* the queue is in ascending priority, events of one priority in the order
\* of their emission
QueueOrdered(queue) ==
    \A i, j \in 1..Len(queue) :
        i < j => \/ queue[i].priority < queue[j].priority
                 \/ /\ queue[i].priority = queue[j].priority
                    /\ queue[i].timestamp < queue[j].timestamp

\* C16: the queue is always ordered by ascending priority, emission order
\* within a priority; a cycle dispatches, in queue order, the first ten
\* events (or all, if fewer) of the queue as it was when the cycle began, so
\* no event left waiting is more urgent than a dispatched one.
UrgentFirstInBatches ==
    /\ QueueOrdered(event_queue)
    /\ cycle.number > 0 =>
          LET n == IF Len(cycle.at_start) < 10 THEN Len(cycle.at_start) ELSE 10
          IN  /\ cycle.selected = [k \in 1..n |-> cycle.at_start[k].event_id]
              /\ Len(cycle.log) <= n
              /\ \A k \in 1..Len(cycle.log) : cycle.log[k].event_id = cycle.selected[k]
              /\ \A k \in 1..n : \A w \in (n + 1)..Len(cycle.at_start) :
                    cycle.at_start[k].priority <= cycle.at_start[w].priority

\* a finished cycle that began with more than ten queued events of both
\* priorities, dispatched ten and left the rest waiting
FullBatchSeen ==
    /\ BetweenCycles
    /\ Len(cycle.at_start) > 10
    /\ Len(cycle.log) = 10
    /\ \E i, j \in 1..Len(cycle.at_start) :
          cycle.at_start[i].priority # cycle.at_start[j].priority
    /\ \E n \in 1..Len(event_queue) : event_queue[n].event_id \in EventIds(cycle.at_start)

\* C17: between cycles the history holds at most 1000 events, and they are
\* the most recently dispatched ones.
HistoryKeepsMostRecent ==
    BetweenCycles =>
        /\ Len(event_history) <= 1000
        /\ {event_history[n].seq : n \in 1..Len(event_history)} =
              (events_processed + events_failed - Len(event_history) + 1)
                  ..(events_processed + events_failed)

\* C18: after a cycle that dispatched a resolution_accepted event naming a
\* conflict, resolve_conflict was forwarded with that id and no alert of the
\* registry has it as its alert id or its key.
AcceptedConflictResolved ==
    BetweenCycles =>
        \A k \in 1..Len(cycle.log) :
            (cycle.log[k].event_type = "resolution_accepted"
                 /\ cycle.log[k].conflict_id # <<>>) =>
                /\ cycle.log[k].forwarded = <<cycle.log[k].conflict_id>>
                /\ cycle.log[k].conflict_id \notin DOMAIN active_conflicts
                /\ \A key \in DOMAIN active_conflicts :
                      active_conflicts[key].alert_id # cycle.log[k].conflict_id

\* the loop tasks that can still run a cycle
ActiveLoops == {n \in 1..Len(tasks) : tasks[n].pc # "done" /\ ~tasks[n].cancel}

\* C19: while Running exactly one dispatch loop is active, while Idle none;
\* a loop is launched only by a start that finds the coordinator Idle, a stop
\* that finds it Running cancels its loop, and a cancelled loop runs no
\* further cycle.
OneLoopWhileRunning ==
    /\ [](/\ is_running \in BOOLEAN
          /\ Cardinality(ActiveLoops) = IF is_running THEN 1 ELSE 0)
    /\ [][/\ Len(tasks') > Len(tasks) => (~is_running /\ is_running')
          /\ (is_running /\ ~is_running') => (Len(tasks') = Len(tasks) /\ ActiveLoops' = {})
          /\ \A n \in 1..Len(tasks) :
                tasks[n].cancel => tasks'[n].pc \in {tasks[n].pc, "done"}]_vars

\* the coordinator was started, stopped and started again: the first loop
\* has ended, the second has run a cycle
RestartedSeen ==
    /\ is_running
    /\ Len(tasks) = 2
    /\ tasks[1].pc = "done"
    /\ tasks[2].pc = "sleep"
    /\ cycle.number >= 1

\* C20: a loop task ends only at its end-of-cycle sleep or before its first
\* cycle, never inside a cycle; whenever no cycle is in progress, every event
\* the last cycle selected has been dispatched, marked processed, removed
\* from the queue and archived, and the status snapshot carries that cycle's
\* refresh.
StopLetsCycleFinish ==
    /\ []((BetweenCycles /\ cycle.number > 0) =>
            /\ Len(cycle.log) = Len(cycle.selected)
            /\ SelectedArchived
            /\ agent_status.last_update = cycle.number)
    /\ [][/\ (is_running /\ ~is_running') => BetweenCycles
          /\ \A n \in 1..Len(tasks) :
                (tasks[n].pc # "done" /\ tasks'[n].pc = "done") =>
                    tasks[n].pc \in {"start", "sleep"}]_vars

\* the coordinator was stopped after a cycle that dispatched events, and its
\* loop has ended
StoppedAfterCycleSeen ==
    /\ ~is_running
    /\ \E n \in 1..Len(tasks) : tasks[n].pc = "done" /\ tasks[n].cancel
    /\ cycle.number >= 1
    /\ Len(cycle.selected) >= 1
    /\ ActiveLoops = {}

\* C21: a cycle whose status refresh raises leaves the coordinator Running
\* with its loop alive: the events of the cycle are archived, the task
\* suspends in the sleep of the except branch, and from there it either
\* begins a further cycle or ends because it was cancelled; while Running
\* and not cancelled its next cycle can begin.
FailedCycleRecovers ==
    /\ [](Cardinality(ActiveLoops) = IF is_running THEN 1 ELSE 0)
    /\ [](\A n \in 1..Len(tasks) :
             (tasks[n].pc = "retry" /\ ~tasks[n].cancel /\ cycle.number < MaxCycles) =>
                 /\ is_running
                 /\ ENABLED BeginCycle(n))
    /\ [][\A n \in 1..Len(tasks) :
             /\ (tasks[n].pc = "process" /\ tasks'[n].pc = "retry") =>
                   /\ is_running' = is_running
                   /\ SelectedArchived'
             /\ (tasks[n].pc = "retry" /\ tasks'[n].pc # "retry") =>
                   \/ tasks'[n].pc = "process" /\ is_running
                   \/ tasks'[n].pc = "done" /\ tasks[n].cancel]_vars

\* the first cycle dispatched an event and failed in the status refresh; the
\* loop ran a second cycle that dispatched and archived an event emitted
\* after the failure and refreshed the status
RecoveredCycleSeen ==
    /\ is_running
    /\ Len(tasks) = 1
    /\ tasks[1].pc = "sleep"
    /\ cycle.number = 2
    /\ coordination_cycles = 0
    /\ agent_status.last_update = 2
    /\ Len(cycle.log) = 1
    /\ Len(event_history) = 2
    /\ \E n \in 1..Len(event_history) :
          /\ event_history[n].event_id = cycle.log[1].event_id
          /\ event_history[n].processed

\* C22: for every conflict generate is called with, the vector-clearance
\* generator returns a candidate with two actions, one per aircraft, whose
\* headings differ by 180 degrees modulo 360, the first being the relative
\* bearing plus 90 degrees, both lasting 300 s.
VectorClearanceReciprocal ==
    generated.called =>
        LET out == SuggestVectorClearance(generated.conflict, <<>>,
                                          AnalyzeConflict(generated.conflict, <<>>))
        IN  /\ ~out.raised
            /\ Len(out.strategy.actions) = 2
            /\ out.strategy.actions[1].aircraft = generated.conflict.aircraft1.icao24
            /\ out.strategy.actions[2].aircraft = generated.conflict.aircraft2.icao24
            /\ out.strategy.actions[1].heading =
                  (CalculateRelativeBearing(generated.conflict.aircraft1,
                                            generated.conflict.aircraft2) + 90000) % 360000
            /\ (out.strategy.actions[2].heading - out.strategy.actions[1].heading) % 360000
                  = 180000
            /\ \A a \in 1..2 : out.strategy.actions[a].duration = 300

\* the events emitted so far that are neither queued nor archived
Missing(queue, history) ==
    {stamp \in 1..emitted :
        /\ \A n \in 1..Len(queue) : queue[n].timestamp # stamp
        /\ \A n \in 1..Len(history) : history[n].timestamp # stamp}

\* C23: with emit on another thread an event can be lost, and only in one
\* way: the step that loses it is the assignment of the rebuilt queue, and
\* the event was emitted after the rebuilt list was built and was never
\* dispatched. Events emitted while the loop is suspended are never lost.
LostOnlyByRacingStore ==
    [][\A stamp \in Missing(event_queue', event_history') \ Missing(event_queue, event_history) :
           \E n \in 1..Len(tasks) :
               /\ tasks[n].pc = "store"
               /\ tasks'[n].pc = "sleep"
               /\ stamp > tasks[n].seen
               /\ ~event_queue[IndexOf(event_queue, stamp)].processed
               /\ \A k \in 1..Len(cycle.log) :
                     cycle.log[k].event_id # stamp]_vars

\* the cycle is over, the loop sleeps, and an event emitted from the other
\* thread during the cycle is not in the queue, was not dispatched and is
\* not in the history
EventLost ==
    /\ BetweenCycles
    /\ \A n \in 1..Len(tasks) : tasks[n].pc = "sleep"
    /\ Missing(event_queue, event_history) # {}
    /\ events_processed + events_failed = Len(event_history)

\* C24: a history query, with or without a type filter, leaves the archived
\* history as it was, in content and in order.
QueryLeavesHistory ==
    [][(\E event_type \in {"None", "aircraft_update"} : GetEventHistory(event_type)) =>
           event_history' = event_history]_vars

\* C25, as far as a finite run can refute it: a waiting event is passed by
\* later events during one cycle at most. Whenever a cycle has ended, every
\* event still waiting was emitted after all the events that the cycles
\* before this one dispatched, so that the next cycle serves it.
WaitingEventNotStarved ==
    (BetweenCycles /\ cycle.number > 0) =>
        \A w \in 1..Len(event_queue) : \A h \in 1..Len(event_history) :
            (\A k \in 1..Len(cycle.log) :
                 cycle.log[k].event_id # event_history[h].event_id) =>
                event_history[h].timestamp < event_queue[w].timestamp

\* C26: an event for which a handler raised adds 1 to events_failed and
\* nothing to events_processed, any other dispatched event adds 1 to
\* events_processed only; the two counters together count the events
\* dispatched so far.
FailedEventsCounted ==
    /\ [](events_processed + events_failed =
             Len(event_history) + (IF BetweenCycles THEN 0 ELSE Len(cycle.log)))
    /\ [][Len(cycle'.log) = Len(cycle.log) + 1 =>
             IF cycle'.log[Len(cycle'.log)].raised # <<>>
             THEN /\ events_failed' = events_failed + 1
                  /\ events_processed' = events_processed
             ELSE /\ events_failed' = events_failed
                  /\ events_processed' = events_processed + 1]_vars

----------------------------------------------------------------------------
(* Properties of detect calls, the counter and the monitoring loops, checked
   under Spec *)

\* C27: a call of detect by itself has no side effect on the detector: it
\* leaves the active registry, the detection counter and the callbacks
\* unchanged and invokes no callback; a key enters the registry only in a
\* processing cycle of the monitoring loop.
DetectIsSideEffectFree ==
    [][/\ last'.op = "detect" =>
              /\ active_conflicts' = active_conflicts
              /\ detection_count' = detection_count
              /\ conflict_callbacks' = conflict_callbacks
              /\ last'.log = <<>>
       /\ (DOMAIN active_conflicts' \ DOMAIN active_conflicts # {}) =>
              last'.op = "cycle"]_vars

\* a detect call returned an alert whose key has no entry in the registry,
\* while the registry holds another alert and a callback is registered
DetectOutsideLoopSeen ==
    /\ last.op = "detect"
    /\ detected.alerts # <<>>
    /\ active_conflicts # EmptyMap
    /\ conflict_callbacks # <<>>
    /\ \E n \in 1..Len(detected.alerts) :
          ConflictKey(detected.alerts[n]) \notin DOMAIN active_conflicts

\* C28: the detection counter equals the size of the registry plus the number
\* of resolve calls that removed an entry: each step changes the counter by
\* the change of the registry's size, plus one in a resolve call that found
\* its key; the counter never decreases and is never below the registry's size.
CounterIsSizePlusRemovals ==
    /\ [](detection_count >= Cardinality(DOMAIN active_conflicts))
    /\ [][/\ detection_count' >= detection_count
           /\ detection_count' - detection_count =
                  Cardinality(DOMAIN active_conflicts') - Cardinality(DOMAIN active_conflicts)
                  + (IF last'.op = "resolve" /\ last'.found THEN 1 ELSE 0)]_vars

\* a cycle replaced the alert of a registered key without counting it, after
\* a resolve call had removed an entry
CounterAfterRemovalSeen ==
    /\ last.op = "cycle"
    /\ \E n \in 1..Len(last.log) : last.log[n].keyActive
    /\ detection_count > Cardinality(DOMAIN active_conflicts)

\* C29: after any sequence of start_monitoring and stop_monitoring calls at
\* most one monitoring loop is alive.
AtMostOneMonitorLoop == loops <= 1

----------------------------------------------------------------------------
(* The speed adjustment, checked under SpecGen *)

\* C30: the speed adjustment only slows aircraft down: for each of the two
\* aircraft of the conflict, the new speed of its action is not greater than
\* the aircraft's current speed in knots.
SpeedOnlyReduced ==
    generated.called =>
        \A n \in 1..Len(generated.candidates) :
            generated.candidates[n].strategy_type = "speed_adjustment" =>
                LET actions == generated.candidates[n].actions
                IN  /\ actions[1].new_speed <= Knots(generated.conflict.aircraft1.velocity)
                    /\ actions[2].new_speed <= Knots(generated.conflict.aircraft2.velocity)

====
